---------------------------- MODULE Spec2Model ----------------------------
(***************************************************************************)
(* FoenixMgrGo: the debug-port protocol (pkg/protocol), the alignment      *)
(* adapter, and the flash workflows of cmd/flash.go, as a state machine.   *)
(*                                                                         *)
(* Three layers of sequential code are modelled, each with its own frame:  *)
(*   cmd  - the CLI workflow (flashProgramFull, flashProgramSector, ...)   *)
(*   op   - the DebugPort method the workflow is in (WriteBlock, ...)      *)
(*   xf   - the DebugPort.transfer call the method is in                   *)
(* A step of the model is the code between two transport calls; the        *)
(* transport (connection.Connection) answers nondeterministically.         *)
(***************************************************************************)
EXTENDS Integers, Sequences, FiniteSets, TLC

VARIABLES cfg,      \* *config.Config (read-only after start-up)
          cmd,      \* frame of the CLI command
          op,       \* frame of the DebugPort method
          xf,       \* frame of DebugPort.transfer
          dp,       \* DebugPort.status0 / status1
          conn,     \* the Connection: opened / closed counters
          wire,     \* everything the program did on the transport, in order
          mem,      \* memory of the target behind the transport
          stopFile, \* presence of the stop indicator file f256.stp
          ld,       \* frame of a Loader and the log of its write-sink calls
          br,       \* the TCP-to-serial relay: its handlers and its serial line
          link,     \* a Connection (serial or TCP) and the calls made on it
          hd        \* the header of the request of a write-sink call

vars == <<cfg, cmd, op, xf, dp, conn, wire, mem, stopFile, ld, br, link, hd>>

(***************************************************************************)
(* Bounds of the model.                                                    *)
(***************************************************************************)
MaxJunk == 1        \* bytes the target may send before the response sync
MaxData == 2        \* longest data of a direct transfer call
MaxBlock == 5       \* longest data of a WriteBlock call
MaxRead == 2        \* longest read of a direct transfer / ReadBlock call

(***************************************************************************)
(* pkg/protocol/commands.go                                                *)
(***************************************************************************)
CMDReadMem == 0
CMDWriteMem == 1
CMDProgramFlash == 16
CMDEraseFlash == 17
CMDEraseSector == 18
CMDProgramSector == 19
CMDStopCPU == 32
CMDStartCPU == 33
CMDEnterDebug == 128
CMDExitDebug == 129
CMDBootRAM == 144
CMDBootFlash == 145
CMDRevision == 254
RequestSyncByte == 85
ResponseSyncByte == 170
DelayEraseSector == 1
DelayProgramSector == 2
BootSrcRAM == 0
BootSrcFlash == 1

(***************************************************************************)
(* Fixed-width integers of the Go code.                                    *)
(***************************************************************************)
U8(n) == n % 256
U16(n) == n % 65536
\* uint32: every uint32 value of the model stays below 2^31 (the largest
\* integer TLC represents), where the reduction modulo 2^32 changes nothing
U32(n) == n

RECURSIVE Xor(_, _)
\* a ^ b on bytes
Xor(a, b) ==
  IF a = 0 /\ b = 0 THEN 0
  ELSE (((a % 2) + (b % 2)) % 2) + (2 * Xor(a \div 2, b \div 2))

\* the byte values a model run draws data from
DataBytes == {15, 60}
\* values of the two status bytes of a response
StatusBytes == {0, 1}
\* bytes a target may send before the response sync byte
JunkBytes == {0, 85}
\* values of the trailing checksum byte of a response
LrcBytes == {0, 170}

RECURSIVE SeqsUpTo(_, _)
SeqsUpTo(S, n) ==
  IF n = 0 THEN {<<>>}
  ELSE LET T == SeqsUpTo(S, n - 1)
       IN  T \cup {Append(t, b) : t \in {u \in T : Len(u) = n - 1}, b \in S}

(***************************************************************************)
(* DebugPort.transfer: the request packet.                                 *)
(***************************************************************************)
\* length := readLength; if data != nil && len(data) > 0 { length = uint16(len(data)) }
TransferLength(data, readLength) ==
  IF Len(data) > 0 THEN U16(Len(data)) ELSE readLength

HeaderLittleEndian(command, address, length) ==
  << RequestSyncByte, command,
     U8(address), U8(address \div 256), U8(address \div 65536),
     U8(length), U8(length \div 256) >>

\* header[0..6]
Header(command, address, length) ==
  << RequestSyncByte, command,
     U8(address \div 65536), U8(address \div 256), U8(address),
     U8(length \div 256), U8(length) >>

RECURSIVE XorRange(_, _, _)
\* lrc := 0; for _, b := range s[i..j] { lrc ^= b }
\* (^ is associative: the range is folded in halves, which keeps the depth of
\* the evaluation logarithmic for the 4 KB chunks of the flash workflows)
XorRange(s, i, j) ==
  IF i > j THEN 0
  ELSE IF i = j THEN Xor(0, s[i])
  ELSE LET m == (i + j) \div 2
       IN  Xor(XorRange(s, i, m), XorRange(s, m + 1, j))

CalcLRCAllHeader(header, data) ==
  Xor(XorRange(header, 1, 7), XorRange(data, 1, Len(data)))

\* for i := 0; i < 6; i++ { lrc ^= header[i] }; then every data byte
CalcLRC(header, data) ==
  Xor(XorRange(header, 1, 6), XorRange(data, 1, Len(data)))

\* packet = header ++ data ++ lrc
Packet(command, address, data, readLength) ==
  LET header == Header(command, address, TransferLength(data, readLength))
  IN  header \o data \o << CalcLRC(header, data) >>


(***************************************************************************)
(* The target behind the transport.  It holds a memory; a write-memory     *)
(* request that arrives complete is applied to it, and the data of a       *)
(* response are the bytes of the memory at the requested address.          *)
(***************************************************************************)
MaxAddress == 4      \* highest address of a WriteBlock call
MaxImage == 5        \* longest image of a whole-flash run, in bytes
MaxRecords == 2      \* most records of a CSV file of a bulk run

MemSize == MaxAddress + MaxBlock + 8

MemInit == [a \in 0 .. (MemSize - 1) |-> 128 + a]

\* fields of a request frame, decoded as the peer decodes them
PktCommand(pkt) == pkt[2]
PktAddress(pkt) == (pkt[3] * 65536) + (pkt[4] * 256) + pkt[5]
PktLength(pkt) == (pkt[6] * 256) + pkt[7]
PktData(pkt) == SubSeq(pkt, 8, Len(pkt) - 1)

TargetApply(m, pkt) ==
  IF PktCommand(pkt) = CMDWriteMem
  THEN [a \in DOMAIN m |->
          IF a >= PktAddress(pkt) /\ a < PktAddress(pkt) + Len(PktData(pkt))
          THEN PktData(pkt)[a - PktAddress(pkt) + 1]
          ELSE m[a]]
  ELSE m

TargetRead(m, pkt, n) ==
  [i \in 1 .. n |->
     IF (PktAddress(pkt) + i - 1) \in DOMAIN m
     THEN m[PktAddress(pkt) + i - 1]
     ELSE 255]

(***************************************************************************)
(* Frames and the transport log.                                           *)
(***************************************************************************)
\* one call of the Connection made by a transfer
IO(k, n, res, bytes) == [k |-> k, n |-> n, res |-> res, bytes |-> bytes]

\* one entry of the transport log
Ev(k, pkt, res, d) == [k |-> k, pkt |-> pkt, res |-> res, d |-> d]

IdleXf ==
  [pc |-> "idle", command |-> 0, address |-> 0, data |-> <<>>,
   readLength |-> 0, packet |-> <<>>, syncByte |-> 0, readBytes |-> <<>>,
   err |-> "", ios |-> <<>>, junk |-> 0]

\* a call of dp.transfer(command, address, data, readLength)
NewXf(command, address, data, readLength) ==
  [IdleXf EXCEPT !.pc = "write", !.command = command, !.address = address,
                 !.data = data, !.readLength = readLength]

IdleOp ==
  [name |-> "none", pc |-> "idle", command |-> 0, address |-> 0,
   data |-> <<>>, length |-> 0, sector |-> 0, source |-> 0,
   err |-> "", result |-> <<>>, block |-> <<>>]

\* a call of a DebugPort method
NewOp(name, command, address, data, length, sector, source) ==
  [IdleOp EXCEPT !.name = name, !.pc = "start", !.command = command,
                 !.address = address, !.data = data, !.length = length,
                 !.sector = sector, !.source = source]

\* the frame of a CLI command: its flags and file (name, addr, sector,
\* size), its position, its local variables and the defers it registered
IdleCmd ==
  [name |-> "none", pc |-> "idle", err |-> "", cancelled |-> FALSE,
   addr |-> 0, sector |-> 0, size |-> 0, warned |-> FALSE,
   address |-> 0, offset |-> 0, toWrite |-> 0,
   written |-> 0, ramAddress |-> 0, currentPage |-> 0,
   records |-> <<>>, idx |-> 0, eraseFirst |-> FALSE,
   source |-> "", basename |-> <<>>, crc |-> <<>>,
   deferClose |-> FALSE, deferExit |-> FALSE]

\* a Loader: the file it was given (file), whether Open has stored it
\* (opened), whether a handler is set, its position in Process, the calls of
\* the handler the current record still has to make (queue) and where
\* Process goes on after them (after), and the calls made so far (calls)
IdleLd ==
  [name |-> "none", pc |-> "idle", file |-> <<>>, opened |-> FALSE,
   handler |-> FALSE, offset |-> 0, baseAddress |-> 0, addressSize |-> 0,
          startAddress |-> 0,
   queue |-> <<>>, after |-> "", calls |-> <<>>, err |-> ""]

\* return nil, fmt.Errorf(...)
XfFail(x, why) == [x EXCEPT !.pc = "ret", !.err = why, !.readBytes = <<>>]

NumWrites(x) == Cardinality({i \in DOMAIN x.ios : x.ios[i].k = "write"})

(***************************************************************************)
(* DebugPort.transfer: the steps.                                          *)
(***************************************************************************)
AfterWriteRetry(x, res) ==
  IF res = "ok" THEN [x EXCEPT !.pc = "sync"]
  ELSE IF NumWrites(x) < 2 THEN [x EXCEPT !.pc = "write"]
  ELSE XfFail(x, "failed to write packet")

\* written, err := dp.conn.Write(packet) and the two checks after it
AfterWrite(x, res) ==
  IF res = "err" THEN XfFail(x, "failed to write packet")
  ELSE IF res = "short" THEN XfFail(x, "incomplete write")
  ELSE [x EXCEPT !.pc = "sync"]

\* (a variant that leaves the status bytes as they are)
ResetStatusKeep == dp

\* lines 57-59: dp.status0 = 0; dp.status1 = 0
ResetStatus == [status0 |-> 0, status1 |-> 0]

\* lines 57-107: reset the status bytes, build the packet, write it
TransferWrite ==
  /\ xf.pc = "write"
  /\ LET packet == Packet(xf.command, xf.address, xf.data, xf.readLength)
     IN  \E res \in {"ok", "err", "short"} :
           /\ xf' = AfterWrite(
                      [xf EXCEPT !.packet = packet,
                                 !.ios = Append(@, IO("write", Len(packet), res, <<>>))],
                      res)
           /\ wire' = Append(wire, Ev("write", packet, res, 0))
           /\ mem' = IF res = "ok" THEN TargetApply(mem, packet) ELSE mem
  /\ dp' = ResetStatus
  /\ UNCHANGED <<cfg, br, link, hd, ld, cmd, op, conn, stopFile>>

\* the outcome "buf, err := dp.conn.Read(n) with err != nil" of a read
ReadErr == 0 - 1

\* for syncByte != ResponseSyncByte
SyncSeen(b) == b = ResponseSyncByte

\* lines 109-117: one turn of the wait for the response sync byte
TransferReadSync ==
  /\ xf.pc = "sync"
  /\ \E r \in {ReadErr} \cup {ResponseSyncByte}
              \cup (IF xf.junk < MaxJunk THEN JunkBytes ELSE {}) :
        IF r = ReadErr
        THEN /\ xf' = XfFail([xf EXCEPT !.ios = Append(@, IO("read", 1, "err", <<>>))],
                             "failed to read sync byte")
             /\ wire' = Append(wire, Ev("resp", <<>>, "err", 0))
        ELSE /\ xf' = [xf EXCEPT !.syncByte = r,
                                 !.ios = Append(@, IO("read", 1, "ok", <<r>>)),
                                 !.junk = IF SyncSeen(r) THEN @ ELSE @ + 1,
                                 !.pc = IF SyncSeen(r) THEN "status" ELSE "sync"]
             /\ wire' = wire
  /\ UNCHANGED <<cfg, br, link, hd, ld, cmd, op, dp, conn, mem, stopFile>>

AfterStatusNoData(readLength) == "lrc"

\* if readLength > 0 { read the data } ; then the LRC byte
AfterStatus(readLength) == IF readLength > 0 THEN "data" ELSE "lrc"

\* lines 119-125: the two status bytes
TransferReadStatus ==
  /\ xf.pc = "status"
  /\ \E r \in {<<ReadErr, ReadErr>>} \cup (StatusBytes \X StatusBytes) :
        IF r[1] = ReadErr
        THEN /\ xf' = XfFail([xf EXCEPT !.ios = Append(@, IO("read", 2, "err", <<>>))],
                             "failed to read status bytes")
             /\ wire' = Append(wire, Ev("resp", <<>>, "err", 0))
             /\ dp' = dp
        ELSE /\ xf' = [xf EXCEPT !.ios = Append(@, IO("read", 2, "ok", r)),
                                 !.pc = AfterStatus(xf.readLength)]
             /\ wire' = wire
             /\ dp' = [status0 |-> r[1], status1 |-> r[2]]
  /\ UNCHANGED <<cfg, br, link, hd, ld, cmd, op, conn, mem, stopFile>>

\* lines 127-134: the data, when a read was asked for
TransferReadData ==
  /\ xf.pc = "data"
  /\ \E res \in {"ok", "err"} :
        IF res = "err"
        THEN /\ xf' = XfFail([xf EXCEPT !.ios = Append(@, IO("read", xf.readLength, "err", <<>>))],
                             "failed to read data")
             /\ wire' = Append(wire, Ev("resp", <<>>, "err", 0))
        ELSE LET bytes == TargetRead(mem, xf.packet, xf.readLength)
             IN  /\ xf' = [xf EXCEPT !.ios = Append(@, IO("read", xf.readLength, "ok", bytes)),
                                     !.readBytes = bytes,
                                     !.pc = "lrc"]
                 /\ wire' = wire
  /\ UNCHANGED <<cfg, br, link, hd, ld, cmd, op, dp, conn, mem, stopFile>>

\* lines 136-142: the trailing checksum byte, read and not verified
TransferReadLRC ==
  /\ xf.pc = "lrc"
  /\ \E r \in {ReadErr} \cup LrcBytes :
        IF r = ReadErr
        THEN /\ xf' = XfFail([xf EXCEPT !.ios = Append(@, IO("read", 1, "err", <<>>))],
                             "failed to read LRC")
             /\ wire' = Append(wire, Ev("resp", <<>>, "err", 0))
        ELSE /\ xf' = [xf EXCEPT !.ios = Append(@, IO("read", 1, "ok", <<r>>)),
                                 !.pc = "ret"]
             /\ wire' = Append(wire, Ev("resp", <<>>, "ok", 0))
  /\ UNCHANGED <<cfg, br, link, hd, ld, cmd, op, dp, conn, mem, stopFile>>

Transfer ==
  \/ TransferWrite
  \/ TransferReadSync
  \/ TransferReadStatus
  \/ TransferReadData
  \/ TransferReadLRC


(***************************************************************************)
(* pkg/config: the CPU families.                                           *)
(***************************************************************************)
CPUIsM68k32(c) == c.CPU = "68040" \/ c.CPU = "68060"

(***************************************************************************)
(* The DebugPort methods built on one transfer.                            *)
(***************************************************************************)
SimpleOps ==
  {"transfer", "EnterDebug", "ExitDebug", "StopCPU", "StartCPU",
   "GetRevision", "ReadBlock", "EraseFlash", "ProgramFlash"}

\* the transfer each of them makes
SimpleCall(o) ==
  CASE o.name = "transfer"     -> NewXf(o.command, o.address, o.data, o.length)
    [] o.name = "EnterDebug"   -> NewXf(CMDEnterDebug, 0, <<>>, 0)
    [] o.name = "ExitDebug"    -> NewXf(CMDExitDebug, 0, <<>>, 0)
    [] o.name = "StopCPU"      -> NewXf(CMDStopCPU, 0, <<>>, 0)
    [] o.name = "StartCPU"     -> NewXf(CMDStartCPU, 0, <<>>, 0)
    [] o.name = "GetRevision"  -> NewXf(CMDRevision, 0, <<>>, 0)
    [] o.name = "ReadBlock"    -> NewXf(CMDReadMem, o.address, <<>>, o.length)
    [] o.name = "EraseFlash"   -> NewXf(CMDEraseFlash, 0, <<>>, 0)
    [] o.name = "ProgramFlash" -> NewXf(CMDProgramFlash, o.address, <<>>, 0)

\* what each of them returns beside the error
SimpleResult(o, x, d) ==
  IF x.err # "" THEN <<>>
  ELSE IF o.name = "GetRevision" THEN <<d.status1>>
  ELSE IF o.name \in {"transfer", "ReadBlock"} THEN x.readBytes
  ELSE <<>>

OpDone(o, err, result) == [o EXCEPT !.pc = "done", !.err = err, !.result = result]

SimpleStart ==
  /\ op.pc = "start"
  /\ op.name \in SimpleOps
  /\ xf.pc \in {"idle", "ret"}
  /\ xf' = SimpleCall(op)
  /\ op' = [op EXCEPT !.pc = "wait"]
  /\ UNCHANGED <<cfg, br, link, hd, ld, cmd, dp, conn, wire, mem, stopFile>>

\* the method returns what its last transfer returned
OpReturn ==
  /\ op.pc = "wait"
  /\ xf.pc = "ret"
  /\ op' = OpDone(op, xf.err, SimpleResult(op, xf, dp))
  /\ xf' = [xf EXCEPT !.pc = "idle"]
  /\ UNCHANGED <<cfg, br, link, hd, ld, cmd, dp, conn, wire, mem, stopFile>>

\* SetBootSource(source)
SetBootSourceStart ==
  /\ op.pc = "start"
  /\ op.name = "SetBootSource"
  /\ IF op.source = BootSrcRAM
     THEN /\ xf' = NewXf(CMDBootRAM, 0, <<>>, 0)
          /\ op' = [op EXCEPT !.pc = "wait"]
     ELSE IF op.source = BootSrcFlash
     THEN /\ xf' = NewXf(CMDBootFlash, 0, <<>>, 0)
          /\ op' = [op EXCEPT !.pc = "wait"]
     ELSE /\ xf' = xf
          /\ op' = OpDone(op, "invalid boot source", <<>>)
  /\ UNCHANGED <<cfg, br, link, hd, ld, cmd, dp, conn, wire, mem, stopFile>>

(***************************************************************************)
(* WriteBlock and the alignment adapter WriteBlock32.                      *)
(***************************************************************************)
AddressAlign(address) == address % 4

\* if addressAlign == 0 && size%4 == 0
IsAligned(address, size) == AddressAlign(address) = 0 /\ (size % 4) = 0

\* adjustedAddress := address - addressAlign
AdjustedAddress(address) == address - AddressAlign(address)

AdjustedSizeNoRound(address, size) == U32(size + AddressAlign(address))

\* adjustedSize := size + addressAlign, rounded up to the next multiple of 4
AdjustedSize(address, size) ==
  LET adjusted == U32(size + AddressAlign(address))
      sizeAlign == adjusted % 4
  IN  IF sizeAlign > 0 THEN U32(adjusted + (4 - sizeAlign)) ELSE adjusted

OverlayAtStart(block, off, data) ==
  [i \in 1 .. Len(block) |-> IF i <= Len(data) THEN data[i] ELSE block[i]]

\* copy(block[addressAlign:], data)
Overlay(block, off, data) ==
  [i \in 1 .. Len(block) |->
     IF i > off /\ (i - off) <= Len(data) THEN data[i - off] ELSE block[i]]

\* WriteBlock, and WriteBlock32 up to its first transfer
WriteBlockStart ==
  /\ op.pc = "start"
  /\ op.name = "WriteBlock"
  /\ xf.pc \in {"idle", "ret"}
  /\ IF ~CPUIsM68k32(cfg)
     THEN /\ xf' = NewXf(CMDWriteMem, op.address, op.data, 0)
          /\ op' = [op EXCEPT !.pc = "wait"]
     ELSE IF IsAligned(op.address, U32(Len(op.data)))
     THEN /\ xf' = NewXf(CMDWriteMem, op.address, op.data, 0)
          /\ op' = [op EXCEPT !.pc = "wait"]
     ELSE /\ xf' = NewXf(CMDReadMem, AdjustedAddress(op.address), <<>>,
                         U16(AdjustedSize(op.address, U32(Len(op.data)))))
          /\ op' = [op EXCEPT !.pc = "w32read"]
  /\ UNCHANGED <<cfg, br, link, hd, ld, cmd, dp, conn, wire, mem, stopFile>>

\* WriteBlock32 lines 32-46: after ReadBlock, overlay and write back
WriteBlock32Modify ==
  /\ op.pc = "w32read"
  /\ xf.pc = "ret"
  /\ IF xf.err # ""
     THEN /\ op' = OpDone(op, "failed to read block for alignment", <<>>)
          /\ xf' = [xf EXCEPT !.pc = "idle"]
     ELSE IF Len(xf.readBytes) # AdjustedSize(op.address, U32(Len(op.data)))
     THEN /\ op' = OpDone(op, "read returned too few bytes", <<>>)
          /\ xf' = [xf EXCEPT !.pc = "idle"]
     ELSE LET block == Overlay(xf.readBytes, AddressAlign(op.address), op.data)
          IN  /\ op' = [op EXCEPT !.pc = "wait", !.block = xf.readBytes]
              /\ xf' = NewXf(CMDWriteMem, AdjustedAddress(op.address), block, 0)
  /\ UNCHANGED <<cfg, br, link, hd, ld, cmd, dp, conn, wire, mem, stopFile>>

(***************************************************************************)
(* EraseSector and ProgramSector.                                          *)
(***************************************************************************)
NoSleep(w, d) == w

\* time.Sleep(d)
Sleep(w, d) == Append(w, Ev("sleep", <<>>, "ok", d))

\* uint32(sector*2) << 16, the product taken in uint8
SectorAddress1(sector) == U32(U8(sector * 2) * 65536)

\* uint32(sector*2+1) << 16, the sum taken in uint8
SectorAddress2(sector) == U32(U8(U8(sector * 2) + 1) * 65536)

EraseSectorStart ==
  /\ op.pc = "start"
  /\ op.name = "EraseSector"
  /\ xf.pc \in {"idle", "ret"}
  /\ xf' = NewXf(CMDEraseSector, SectorAddress1(op.sector), <<>>, 0)
  /\ op' = [op EXCEPT !.pc = "erase1"]
  /\ UNCHANGED <<cfg, br, link, hd, ld, cmd, dp, conn, wire, mem, stopFile>>

\* lines 211-218: after the first 4 KB block
EraseSectorSecond ==
  /\ op.pc = "erase1"
  /\ xf.pc = "ret"
  /\ IF xf.err # ""
     THEN /\ op' = OpDone(op, "failed to erase first 4KB block", <<>>)
          /\ xf' = [xf EXCEPT !.pc = "idle"]
          /\ wire' = wire
     ELSE /\ wire' = Sleep(wire, DelayEraseSector)
          /\ xf' = NewXf(CMDEraseSector, SectorAddress2(op.sector), <<>>, 0)
          /\ op' = [op EXCEPT !.pc = "erase2"]
  /\ UNCHANGED <<cfg, br, link, hd, ld, cmd, dp, conn, mem, stopFile>>

\* lines 218-223: after the second 4 KB block
EraseSectorReturn ==
  /\ op.pc = "erase2"
  /\ xf.pc = "ret"
  /\ IF xf.err # ""
     THEN /\ op' = OpDone(op, "failed to erase second 4KB block", <<>>)
          /\ wire' = wire
     ELSE /\ wire' = Sleep(wire, DelayEraseSector)
          /\ op' = OpDone(op, "", <<>>)
  /\ xf' = [xf EXCEPT !.pc = "idle"]
  /\ UNCHANGED <<cfg, br, link, hd, ld, cmd, dp, conn, mem, stopFile>>

ProgramSectorStart ==
  /\ op.pc = "start"
  /\ op.name = "ProgramSector"
  /\ xf.pc \in {"idle", "ret"}
  /\ xf' = NewXf(CMDProgramSector, SectorAddress1(op.sector), <<>>, 0)
  /\ op' = [op EXCEPT !.pc = "program"]
  /\ UNCHANGED <<cfg, br, link, hd, ld, cmd, dp, conn, wire, mem, stopFile>>

ProgramSectorReturn ==
  /\ op.pc = "program"
  /\ xf.pc = "ret"
  /\ IF xf.err # ""
     THEN /\ op' = OpDone(op, xf.err, <<>>)
          /\ wire' = wire
     ELSE /\ wire' = Sleep(wire, DelayProgramSector)
          /\ op' = OpDone(op, "", <<>>)
  /\ xf' = [xf EXCEPT !.pc = "idle"]
  /\ UNCHANGED <<cfg, br, link, hd, ld, cmd, dp, conn, mem, stopFile>>

Session ==
  \/ SimpleStart
  \/ OpReturn
  \/ SetBootSourceStart
  \/ WriteBlockStart
  \/ WriteBlock32Modify
  \/ EraseSectorStart
  \/ EraseSectorSecond
  \/ EraseSectorReturn
  \/ ProgramSectorStart
  \/ ProgramSectorReturn


(***************************************************************************)
(* cmd/flash.go: what the flash commands share.                            *)
(***************************************************************************)
\* the contents of a file of n bytes
FileData(n) == [i \in 1 .. n |-> ((i * 7) % 251) + 1]

\* (a variant that takes every chunk from the start of the data)
SliceFromStart(size, from, n) == SubSeq(FileData(size), 1, n)

\* data[from : from+n]
Slice(size, from, n) == SubSeq(FileData(size), from + 1, from + n)

\* (a variant for which no step ever fails)
StepFailedNever(o) == FALSE

\* if err := dp.WriteBlock(...) / EraseFlash() / ...; err != nil
StepFailed(o) == o.err # ""

\* (a variant that never finds the indicator file)
IsStoppedNever == FALSE

\* util.IsStopped: os.Stat("f256.stp") finds the file
IsStopped == stopFile

\* return err, before the connection is opened
Returned(c, err) == [c EXCEPT !.pc = "returned", !.err = err]

\* (a variant in which no dp.ExitDebug() was deferred)
ReturnWithNoExit(c, err, w) ==
  IF c.deferClose
  THEN /\ cmd' = [c EXCEPT !.pc = "returned", !.err = err]
       /\ op' = IdleOp
       /\ conn' = [conn EXCEPT !.open = FALSE, !.closes = @ + 1]
       /\ wire' = Append(w, Ev("close", <<>>, "ok", 0))
  ELSE /\ cmd' = [c EXCEPT !.pc = "returned", !.err = err]
       /\ op' = IdleOp
       /\ conn' = conn
       /\ wire' = w

\* return err, after it: the deferred dp.ExitDebug() and conn.Close() run
ReturnWith(c, err, w) ==
  IF c.deferExit
  THEN /\ cmd' = [c EXCEPT !.pc = "exiting", !.err = err]
       /\ op' = NewOp("ExitDebug", 0, 0, <<>>, 0, 0, 0)
       /\ conn' = conn
       /\ wire' = w
  ELSE IF c.deferClose
  THEN /\ cmd' = [c EXCEPT !.pc = "returned", !.err = err]
       /\ op' = IdleOp
       /\ conn' = [conn EXCEPT !.open = FALSE, !.closes = @ + 1]
       /\ wire' = Append(w, Ev("close", <<>>, "ok", 0))
  ELSE /\ cmd' = [c EXCEPT !.pc = "returned", !.err = err]
       /\ op' = IdleOp
       /\ conn' = conn
       /\ wire' = w

\* conn.Open(cfg.Port); defer conn.Close(); NewDebugPort; if !IsStopped()
\* { dp.EnterDebug() ... }
Open ==
  /\ cmd.pc = "open"
  /\ \E ok \in BOOLEAN :
        IF ~ok
        THEN /\ cmd' = Returned(cmd, "failed to open connection")
             /\ wire' = Append(wire, Ev("open", <<>>, "err", 0))
             /\ UNCHANGED <<op, conn>>
        ELSE /\ wire' = Append(wire, Ev("open", <<>>, "ok", 0))
             /\ conn' = [conn EXCEPT !.open = TRUE, !.opens = @ + 1]
             /\ IF ~IsStopped
                THEN /\ op' = NewOp("EnterDebug", 0, 0, <<>>, 0, 0, 0)
                     /\ cmd' = [cmd EXCEPT !.pc = "enter", !.deferClose = TRUE]
                ELSE /\ op' = op
                     /\ cmd' = [cmd EXCEPT !.pc = "body", !.deferClose = TRUE]
  /\ UNCHANGED <<cfg, br, link, hd, ld, xf, dp, mem, stopFile>>

\* if err := dp.EnterDebug(); err != nil { return ... }; defer dp.ExitDebug()
Entered ==
  /\ cmd.pc = "enter"
  /\ op.pc = "done"
  /\ IF op.err # ""
     THEN ReturnWith(cmd, "failed to enter debug mode", wire)
     ELSE /\ cmd' = [cmd EXCEPT !.pc = "body", !.deferExit = TRUE]
          /\ op' = IdleOp
          /\ UNCHANGED <<conn, wire>>
  /\ UNCHANGED <<cfg, br, link, hd, ld, xf, dp, mem, stopFile>>

\* the deferred dp.ExitDebug() has returned (its error is dropped); the
\* deferred conn.Close() runs
DeferredClose ==
  /\ cmd.pc = "exiting"
  /\ op.pc = "done"
  /\ cmd' = [cmd EXCEPT !.pc = "returned"]
  /\ op' = IdleOp
  /\ conn' = [conn EXCEPT !.open = FALSE, !.closes = @ + 1]
  /\ wire' = Append(wire, Ev("close", <<>>, "ok", 0))
  /\ UNCHANGED <<cfg, br, link, hd, ld, xf, dp, mem, stopFile>>

(***************************************************************************)
(* flashProgramFull and uploadChunked.                                     *)
(***************************************************************************)
\* lines 216-246: everything before the connection is opened
FullPrologue ==
  /\ cmd.name = "flashProgramFull"
  /\ cmd.pc = "start"
  /\ \E addrOk \in BOOLEAN, fileOk \in BOOLEAN, yes \in BOOLEAN :
        cmd' = IF cfg.Port = "" THEN Returned(cmd, "no port specified")
               ELSE IF ~addrOk THEN Returned(cmd, "invalid address")
               ELSE IF ~fileOk THEN Returned(cmd, "failed to read file")
               ELSE IF ~yes
               THEN [Returned(cmd, "") EXCEPT !.cancelled = TRUE,
                                              !.warned = (cmd.size # cfg.FlashSize)]
               ELSE [cmd EXCEPT !.pc = "open",
                                !.warned = (cmd.size # cfg.FlashSize)]
  /\ UNCHANGED <<cfg, br, link, hd, ld, op, xf, dp, conn, wire, mem, stopFile>>

\* chunkSize := cfg.ChunkSize; if offset+chunkSize > len(data) { ... }
ChunkSize(c) ==
  IF c.offset + cfg.ChunkSize > c.size THEN c.size - c.offset ELSE cfg.ChunkSize

\* (a variant that goes on to program the flash without erasing it)
AfterUploadProgram(c) == NewOp("ProgramFlash", 0, c.addr, <<>>, 0, 0, 0)

\* uploadChunked has returned nil: dp.EraseFlash() is next
AfterUpload(c) == NewOp("EraseFlash", 0, 0, <<>>, 0, 0, 0)

\* the head of the loop of uploadChunked, and what follows the loop
UploadStep(c) ==
  IF c.offset < c.size
  THEN /\ cmd' = [c EXCEPT !.pc = "uploading", !.toWrite = ChunkSize(c)]
       /\ op' = NewOp("WriteBlock", 0, c.address,
                      Slice(c.size, c.offset, ChunkSize(c)), 0, 0, 0)
  ELSE /\ cmd' = [c EXCEPT !.pc = "erasing"]
       /\ op' = AfterUpload(c)

\* uploadChunked(dp, addr, data): address := startAddress; offset := 0
FullUploadStart ==
  /\ cmd.name = "flashProgramFull"
  /\ cmd.pc = "body"
  /\ UploadStep([cmd EXCEPT !.address = cmd.addr, !.offset = 0])
  /\ UNCHANGED <<cfg, br, link, hd, ld, xf, dp, conn, wire, mem, stopFile>>

\* dp.WriteBlock(address, chunk) has returned
FullUploaded ==
  /\ cmd.name = "flashProgramFull"
  /\ cmd.pc = "uploading"
  /\ op.pc = "done"
  /\ IF StepFailed(op)
     THEN ReturnWith(cmd, "upload failed", wire)
     ELSE /\ UploadStep([cmd EXCEPT !.address = U32(@ + cmd.toWrite),
                                    !.offset = @ + cmd.toWrite])
          /\ UNCHANGED <<conn, wire>>
  /\ UNCHANGED <<cfg, br, link, hd, ld, xf, dp, mem, stopFile>>

\* dp.EraseFlash() has returned
FullErased ==
  /\ cmd.name = "flashProgramFull"
  /\ cmd.pc = "erasing"
  /\ op.pc = "done"
  /\ IF StepFailed(op)
     THEN ReturnWith(cmd, "flash erase failed", wire)
     ELSE /\ cmd' = [cmd EXCEPT !.pc = "programming"]
          /\ op' = NewOp("ProgramFlash", 0, cmd.addr, <<>>, 0, 0, 0)
          /\ UNCHANGED <<conn, wire>>
  /\ UNCHANGED <<cfg, br, link, hd, ld, xf, dp, mem, stopFile>>

\* dp.ProgramFlash(addr) has returned
FullProgrammed ==
  /\ cmd.name = "flashProgramFull"
  /\ cmd.pc = "programming"
  /\ op.pc = "done"
  /\ ReturnWith(cmd, IF StepFailed(op) THEN "flash programming failed" ELSE "", wire)
  /\ UNCHANGED <<cfg, br, link, hd, ld, xf, dp, mem, stopFile>>

FlashFull ==
  \/ FullPrologue
  \/ Open
  \/ Entered
  \/ FullUploadStart
  \/ FullUploaded
  \/ FullErased
  \/ FullProgrammed
  \/ DeferredClose

(***************************************************************************)
(* flashProgramSector.                                                     *)
(***************************************************************************)
\* Config.SetTarget
SetTarget(c, machineName) ==
  IF machineName = "fnx1591"
  THEN [c EXCEPT !.flashPageSize = 8, !.ramSize = 8, !.flashSectorSize = 32]
  ELSE IF machineName \in {"f256k", "f256jr"}
  THEN [c EXCEPT !.flashPageSize = 8, !.ramSize = 8, !.flashSectorSize = 8]
  ELSE [c EXCEPT !.flashPageSize = 0, !.ramSize = 8, !.flashSectorSize = 0]

FlashPageSize(c) == c.flashPageSize

FlashSectorSize(c) == c.flashSectorSize

RAMSize(c) == c.ramSize

\* the text of --flash-sector that ParseUint(flashSector, 16, 8) rejects
BadSector == 0 - 1

\* (a variant of the checks without the one on the size of the file)
SectorPrecheckNoSize(c, fileOk) ==
  IF cfg.Port = "" THEN "no port specified"
  ELSE IF FlashPageSize(cfg) = 0 \/ FlashSectorSize(cfg) = 0
  THEN "target machine does not support flash sector programming"
  ELSE IF c.sector = BadSector THEN "invalid sector number"
  ELSE IF ~fileOk THEN "failed to read file"
  ELSE ""

\* lines 291-317: the error flashProgramSector returns before it asks for
\* confirmation, "" if none
SectorPrecheck(c, fileOk) ==
  IF cfg.Port = "" THEN "no port specified"
  ELSE IF FlashPageSize(cfg) = 0 \/ FlashSectorSize(cfg) = 0
  THEN "target machine does not support flash sector programming"
  ELSE IF c.sector = BadSector THEN "invalid sector number"
  ELSE IF ~fileOk THEN "failed to read file"
  ELSE IF c.size # FlashSectorSize(cfg) * 1024
  THEN "file size does not match sector size"
  ELSE ""

\* lines 291-325: everything before the connection is opened
SectorPrologue ==
  /\ cmd.name = "flashProgramSector"
  /\ cmd.pc = "start"
  /\ \E fileOk \in BOOLEAN, yes \in BOOLEAN :
        cmd' = IF SectorPrecheck(cmd, fileOk) # ""
               THEN Returned(cmd, SectorPrecheck(cmd, fileOk))
               ELSE IF ~yes
               THEN [Returned(cmd, "") EXCEPT !.cancelled = TRUE]
               ELSE [cmd EXCEPT !.pc = "open"]
  /\ UNCHANGED <<cfg, br, link, hd, ld, op, xf, dp, conn, wire, mem, stopFile>>

\* startPage := uint8(sectorNum) * uint8(pagesPerSector)
StartPage(c) ==
  U8(U8(c.sector) * U8(FlashSectorSize(cfg) \div FlashPageSize(cfg)))

\* toWrite := cfg.ChunkSize; if toWrite > len(data)-written { ... }
ToWrite(c) ==
  IF cfg.ChunkSize > c.size - c.written THEN c.size - c.written
  ELSE cfg.ChunkSize

\* the head of the loop over the file, and what follows the loop
SectorStep(c) ==
  IF c.written < c.size
  THEN /\ cmd' = [c EXCEPT !.pc = "sector_write", !.toWrite = ToWrite(c)]
       /\ op' = NewOp("WriteBlock", 0, c.ramAddress,
                      Slice(c.size, c.written, ToWrite(c)), 0, 0, 0)
       /\ UNCHANGED <<conn, wire>>
  ELSE IF c.ramAddress > 0
  THEN /\ cmd' = [c EXCEPT !.pc = "tail_erase"]
       /\ op' = NewOp("EraseSector", 0, 0, <<>>, 0, c.currentPage, 0)
       /\ UNCHANGED <<conn, wire>>
  ELSE ReturnWith(c, "", wire)

\* lines 346-355
SectorStart ==
  /\ cmd.name = "flashProgramSector"
  /\ cmd.pc = "body"
  /\ SectorStep([cmd EXCEPT !.ramAddress = 0, !.written = 0,
                            !.currentPage = StartPage(cmd)])
  /\ UNCHANGED <<cfg, br, link, hd, ld, xf, dp, mem, stopFile>>

\* dp.WriteBlock(ramAddress, chunk) has returned
SectorWritten ==
  /\ cmd.name = "flashProgramSector"
  /\ cmd.pc = "sector_write"
  /\ op.pc = "done"
  /\ IF StepFailed(op)
     THEN ReturnWith(cmd, "failed to write to RAM", wire)
     ELSE LET c == [cmd EXCEPT !.written = @ + cmd.toWrite,
                               !.ramAddress = U32(@ + cmd.toWrite)]
          IN  IF c.ramAddress >= RAMSize(cfg) * 1024
              THEN /\ cmd' = [c EXCEPT !.pc = "page_erase"]
                   /\ op' = NewOp("EraseSector", 0, 0, <<>>, 0, c.currentPage, 0)
                   /\ UNCHANGED <<conn, wire>>
              ELSE SectorStep(c)
  /\ UNCHANGED <<cfg, br, link, hd, ld, xf, dp, mem, stopFile>>

\* dp.EraseSector(currentPage) has returned, in the loop or after it
SectorErased ==
  /\ cmd.name = "flashProgramSector"
  /\ cmd.pc \in {"page_erase", "tail_erase"}
  /\ op.pc = "done"
  /\ IF StepFailed(op)
     THEN ReturnWith(cmd, "failed to erase sector", wire)
     ELSE /\ cmd' = [cmd EXCEPT !.pc = IF cmd.pc = "page_erase"
                                       THEN "page_program" ELSE "tail_program"]
          /\ op' = NewOp("ProgramSector", 0, 0, <<>>, 0, cmd.currentPage, 0)
          /\ UNCHANGED <<conn, wire>>
  /\ UNCHANGED <<cfg, br, link, hd, ld, xf, dp, mem, stopFile>>

\* dp.ProgramSector(currentPage) has returned in the loop: currentPage++;
\* ramAddress = 0
SectorPageProgrammed ==
  /\ cmd.name = "flashProgramSector"
  /\ cmd.pc = "page_program"
  /\ op.pc = "done"
  /\ IF StepFailed(op)
     THEN ReturnWith(cmd, "failed to program sector", wire)
     ELSE SectorStep([cmd EXCEPT !.currentPage = U8(@ + 1), !.ramAddress = 0])
  /\ UNCHANGED <<cfg, br, link, hd, ld, xf, dp, mem, stopFile>>

\* dp.ProgramSector(currentPage) has returned after the loop
SectorTailProgrammed ==
  /\ cmd.name = "flashProgramSector"
  /\ cmd.pc = "tail_program"
  /\ op.pc = "done"
  /\ ReturnWith(cmd, IF StepFailed(op) THEN "failed to program sector" ELSE "", wire)
  /\ UNCHANGED <<cfg, br, link, hd, ld, xf, dp, mem, stopFile>>

FlashSector ==
  \/ SectorPrologue
  \/ Open
  \/ Entered
  \/ SectorStart
  \/ SectorWritten
  \/ SectorErased
  \/ SectorPageProgrammed
  \/ SectorTailProgrammed
  \/ DeferredClose

(***************************************************************************)
(* flashBulkProgram.  A record of the CSV file is <<sector, file>>, the    *)
(* file given by its length; a record of one field is <<sector>>.          *)
(***************************************************************************)
\* the file of a record that util.ReadFile cannot read
BadFile == 0 - 1

\* lines 409-446: everything before the connection is opened
BulkPrologue ==
  /\ cmd.name = "flashBulkProgram"
  /\ cmd.pc = "start"
  /\ \E csvOk \in BOOLEAN, yes \in BOOLEAN :
        cmd' = IF cfg.Port = "" THEN Returned(cmd, "no port specified")
               ELSE IF ~csvOk THEN Returned(cmd, "failed to read CSV file")
               ELSE IF Len(cmd.records) = 0 THEN Returned(cmd, "CSV file is empty")
               ELSE IF \E i \in DOMAIN cmd.records : Len(cmd.records[i]) < 2
               THEN Returned(cmd, "invalid CSV format")
               ELSE IF ~yes
               THEN [Returned(cmd, "") EXCEPT !.cancelled = TRUE]
               ELSE [cmd EXCEPT !.pc = "open"]
  /\ UNCHANGED <<cfg, br, link, hd, ld, op, xf, dp, conn, wire, mem, stopFile>>

\* (a variant that erases the sector whether or not the flash was erased)
BulkAfterUploadErase(c) ==
  <<"bulk_sector_erase", NewOp("EraseSector", 0, 0, <<>>, 0, U8(c.sector), 0)>>

\* the upload of a record has returned nil: if !flashEraseFirst
\* { dp.EraseSector(uint8(sectorNum)) }, then dp.ProgramSector
BulkAfterUpload(c) ==
  IF ~c.eraseFirst
  THEN <<"bulk_sector_erase", NewOp("EraseSector", 0, 0, <<>>, 0, U8(c.sector), 0)>>
  ELSE <<"bulk_program", NewOp("ProgramSector", 0, 0, <<>>, 0, U8(c.sector), 0)>>

\* the head of the loop of uploadChunked for a record, and what follows it
BulkUploadStep(c) ==
  IF c.offset < c.size
  THEN /\ cmd' = [c EXCEPT !.pc = "bulk_uploading", !.toWrite = ChunkSize(c)]
       /\ op' = NewOp("WriteBlock", 0, c.address,
                      Slice(c.size, c.offset, ChunkSize(c)), 0, 0, 0)
  ELSE /\ cmd' = [c EXCEPT !.pc = BulkAfterUpload(c)[1]]
       /\ op' = BulkAfterUpload(c)[2]

\* the body of "for _, record := range records" for the record at c.idx, up
\* to its first call of the debug port; the return after the last record
BulkEntry(c) ==
  IF c.idx > Len(c.records) THEN ReturnWith(c, "", wire)
  ELSE IF c.records[c.idx][1] = BadSector
  THEN ReturnWith(c, "invalid sector number", wire)
  ELSE IF c.records[c.idx][2] = BadFile
  THEN ReturnWith(c, "failed to read file", wire)
  ELSE /\ BulkUploadStep([c EXCEPT !.sector = c.records[c.idx][1],
                                   !.size = c.records[c.idx][2],
                                   !.address = 0, !.offset = 0])
       /\ UNCHANGED <<conn, wire>>

\* if flashEraseFirst { dp.EraseFlash() }, else the first record
BulkStart ==
  /\ cmd.name = "flashBulkProgram"
  /\ cmd.pc = "body"
  /\ IF cmd.eraseFirst
     THEN /\ cmd' = [cmd EXCEPT !.pc = "bulk_erasing"]
          /\ op' = NewOp("EraseFlash", 0, 0, <<>>, 0, 0, 0)
          /\ UNCHANGED <<conn, wire>>
     ELSE BulkEntry([cmd EXCEPT !.idx = 1])
  /\ UNCHANGED <<cfg, br, link, hd, ld, xf, dp, mem, stopFile>>

\* dp.EraseFlash() has returned
BulkErased ==
  /\ cmd.name = "flashBulkProgram"
  /\ cmd.pc = "bulk_erasing"
  /\ op.pc = "done"
  /\ IF StepFailed(op)
     THEN ReturnWith(cmd, "flash erase failed", wire)
     ELSE BulkEntry([cmd EXCEPT !.idx = 1])
  /\ UNCHANGED <<cfg, br, link, hd, ld, xf, dp, mem, stopFile>>

\* dp.WriteBlock(address, chunk) of uploadChunked has returned
BulkUploaded ==
  /\ cmd.name = "flashBulkProgram"
  /\ cmd.pc = "bulk_uploading"
  /\ op.pc = "done"
  /\ IF StepFailed(op)
     THEN ReturnWith(cmd, "failed to upload", wire)
     ELSE /\ BulkUploadStep([cmd EXCEPT !.address = U32(@ + cmd.toWrite),
                                        !.offset = @ + cmd.toWrite])
          /\ UNCHANGED <<conn, wire>>
  /\ UNCHANGED <<cfg, br, link, hd, ld, xf, dp, mem, stopFile>>

\* dp.EraseSector(uint8(sectorNum)) has returned
BulkSectorErased ==
  /\ cmd.name = "flashBulkProgram"
  /\ cmd.pc = "bulk_sector_erase"
  /\ op.pc = "done"
  /\ IF StepFailed(op)
     THEN ReturnWith(cmd, "failed to erase sector", wire)
     ELSE /\ cmd' = [cmd EXCEPT !.pc = "bulk_program"]
          /\ op' = NewOp("ProgramSector", 0, 0, <<>>, 0, U8(cmd.sector), 0)
          /\ UNCHANGED <<conn, wire>>
  /\ UNCHANGED <<cfg, br, link, hd, ld, xf, dp, mem, stopFile>>

\* dp.ProgramSector(uint8(sectorNum)) has returned: the next record
BulkProgrammed ==
  /\ cmd.name = "flashBulkProgram"
  /\ cmd.pc = "bulk_program"
  /\ op.pc = "done"
  /\ IF StepFailed(op)
     THEN ReturnWith(cmd, "failed to program sector", wire)
     ELSE BulkEntry([cmd EXCEPT !.idx = @ + 1])
  /\ UNCHANGED <<cfg, br, link, hd, ld, xf, dp, mem, stopFile>>

FlashBulk ==
  \/ BulkPrologue
  \/ Open
  \/ Entered
  \/ BulkStart
  \/ BulkErased
  \/ BulkUploaded
  \/ BulkSectorErased
  \/ BulkProgrammed
  \/ DeferredClose

(***************************************************************************)
(* pkg/loader: the write-sink (WriteHandler) and the reset vectors.        *)
(***************************************************************************)
\* one call of the handler: handler(address, data); kind tells the call of
\* a data block from a call made by SetupResetVectors
Call(kind, address, data) == [kind |-> kind, address |-> address, data |-> data]

\* Config.CPUIsMotorolatype680X0
CPUIsMotorolatype680X0(cpu) == cpu \in {"m68k", "68000", "68040", "68060"}

\* byte(v >> (8*i))
ByteOf(v, i) ==
  CASE i = 0 -> v % 256
    [] i = 1 -> (v \div 256) % 256
    [] i = 2 -> (v \div 65536) % 256
    [] i = 3 -> (v \div 16777216) % 256

\* (a variant that points the reset vector at the entry address in any bank)
Setup65816VectorsDirect(startAddress) ==
  <<Call("vector", 65532,
         <<ByteOf(startAddress, 0), ByteOf(startAddress, 1)>>)>>

\* setup65816Vectors
Setup65816Vectors(startAddress) ==
  IF ByteOf(startAddress, 2) # 0
  THEN <<Call("vector", 65408,
              <<24, 251, 92, ByteOf(startAddress, 0), ByteOf(startAddress, 1),
                ByteOf(startAddress, 2)>>),
         Call("vector", 65532, <<128, 255>>)>>
  ELSE <<Call("vector", 65532,
              <<ByteOf(startAddress, 0), ByteOf(startAddress, 1)>>)>>

\* setup65C02Vectors
Setup65C02Vectors(startAddress) ==
  <<Call("vector", 65532, <<ByteOf(startAddress, 0), ByteOf(startAddress, 1)>>),
    Call("vector", 128, <<67, 82, 79, 83, 83, 68, 69, 86>>),
    Call("vector", 136, <<ByteOf(startAddress, 0), ByteOf(startAddress, 1)>>),
    Call("vector", 250, <<0, 0>>)>>

\* (a variant that writes the entry address little-endian)
Setup680X0VectorsLittleEndian(startAddress) ==
  <<Call("vector", 4,
         <<ByteOf(startAddress, 0), ByteOf(startAddress, 1),
           ByteOf(startAddress, 2), ByteOf(startAddress, 3)>>)>>

\* setup680X0Vectors
Setup680X0Vectors(startAddress) ==
  <<Call("vector", 4,
         <<ByteOf(startAddress, 3), ByteOf(startAddress, 2),
           ByteOf(startAddress, 1), ByteOf(startAddress, 0)>>)>>

\* (a variant that takes a CPU of no family for a 65816)
SetupResetVectorsDefault(cpu, startAddress) ==
  IF cpu \in {"65c02", "65C02"}
  THEN [calls |-> Setup65C02Vectors(startAddress), err |-> ""]
  ELSE IF CPUIsMotorolatype680X0(cpu)
  THEN [calls |-> Setup680X0Vectors(startAddress), err |-> ""]
  ELSE [calls |-> Setup65816Vectors(startAddress), err |-> ""]

\* SetupResetVectors: the calls of the handler it makes, in order, or the
\* error it returns without making any
SetupResetVectors(cpu, startAddress) ==
  IF cpu = "65816"
  THEN [calls |-> Setup65816Vectors(startAddress), err |-> ""]
  ELSE IF cpu \in {"65c02", "65C02"}
  THEN [calls |-> Setup65C02Vectors(startAddress), err |-> ""]
  ELSE IF CPUIsMotorolatype680X0(cpu)
  THEN [calls |-> Setup680X0Vectors(startAddress), err |-> ""]
  ELSE [calls |-> <<>>, err |-> "unsupported CPU type"]

\* Process returns err
LdReturn(l, err) == [l EXCEPT !.pc = "returned", !.err = err, !.queue = <<>>]

\* Process has the handler calls cs to make and then goes on at pc
LdCalls(l, cs, pc) ==
  IF cs = <<>> THEN [l EXCEPT !.pc = pc]
  ELSE [l EXCEPT !.pc = "call", !.queue = cs, !.after = pc]

\* (a variant of the handler's caller that goes on after a failure)
AfterCallIgnore(l, ok) ==
  IF Len(l.queue) = 1 THEN [l EXCEPT !.pc = l.after, !.queue = <<>>]
  ELSE [l EXCEPT !.queue = Tail(l.queue)]

\* if err := l.handler(address, data); err != nil { return ... }
AfterCall(l, ok) ==
  IF ~ok THEN LdReturn(l, "handler failed")
  ELSE IF Len(l.queue) = 1 THEN [l EXCEPT !.pc = l.after, !.queue = <<>>]
  ELSE [l EXCEPT !.queue = Tail(l.queue)]

\* the handler is called once and answers
Sink ==
  /\ ld.pc = "call"
  /\ \E ok \in BOOLEAN :
        ld' = AfterCall([ld EXCEPT !.calls =
                           Append(@, [call |-> Head(ld.queue), ok |-> ok])], ok)
  /\ UNCHANGED <<cfg, br, link, hd, cmd, op, xf, dp, conn, wire, mem, stopFile>>

\* SetupResetVectors(cpu, startAddress, handler), called on its own
ResetVectors ==
  /\ ld.name = "SetupResetVectors"
  /\ ld.pc = "process"
  /\ ld' = IF SetupResetVectors(cfg.CPU, ld.startAddress).err # ""
           THEN LdReturn(ld, SetupResetVectors(cfg.CPU, ld.startAddress).err)
           ELSE LdCalls(ld, SetupResetVectors(cfg.CPU, ld.startAddress).calls,
                        "returned")
  /\ UNCHANGED <<cfg, br, link, hd, cmd, op, xf, dp, conn, wire, mem, stopFile>>

(***************************************************************************)
(* pkg/loader: Open and the start of Process.  A file of the binary        *)
(* formats is its sequence of bytes; offsets count from 0 as in the code.  *)
(***************************************************************************)
Pow256(i) == CASE i = 0 -> 1 [] i = 1 -> 256 [] i = 2 -> 65536 [] i = 3 -> 16777216

RECURSIVE ReadLittleEndianFrom(_, _, _, _)
\* the loop of readLittleEndianInt from its i-th round on
ReadLittleEndianFrom(data, offset, byteCount, i) ==
  IF i < byteCount /\ offset + i < Len(data)
  THEN (data[offset + i + 1] * Pow256(i))
         + ReadLittleEndianFrom(data, offset, byteCount, i + 1)
  ELSE 0

\* PGZLoader.readLittleEndianInt(l.data[offset:], byteCount); the OR of bytes
\* in disjoint positions is their sum
ReadLittleEndianInt(data, offset, byteCount) ==
  ReadLittleEndianFrom(data, offset, byteCount, 0)

\* (a variant of PGZLoader.Open that takes any header byte for 'Z')
PGZAddressSizeAny(b) == IF b = 122 THEN 4 ELSE 3

\* PGZLoader.Open: switch data[0]; 0 stands for the default branch
PGZAddressSize(b) == IF b = 122 THEN 4 ELSE IF b = 90 THEN 3 ELSE 0

OpenFailed(l, err) == [l EXCEPT !.pc = "openfailed", !.err = err]

Opened(l) == [l EXCEPT !.pc = "process", !.opened = TRUE]

\* Open(filename) of each loader; readOk: os.ReadFile / os.Open succeeds
LoaderOpen ==
  /\ ld.pc = "new"
  /\ \E readOk \in BOOLEAN :
        ld' = IF ~readOk THEN OpenFailed(ld, "failed to read file")
              ELSE IF ld.name = "PGZLoader"
              THEN IF Len(ld.file) < 1
                   THEN OpenFailed(ld, "file too small to be valid PGZ")
                   ELSE IF PGZAddressSize(ld.file[1]) = 0
                   THEN OpenFailed(ld, "invalid PGZ header")
                   ELSE [Opened(ld) EXCEPT
                           !.addressSize = PGZAddressSize(ld.file[1])]
              ELSE IF ld.name = "WDCLoader"
              THEN IF Len(ld.file) < 1 \/ ld.file[1] # 90
                   THEN OpenFailed(ld, "invalid WDC file: missing 'Z' signature")
                   ELSE Opened(ld)
              ELSE IF ld.name = "IntelHexLoader"
              THEN [Opened(ld) EXCEPT !.baseAddress = 0]
              ELSE Opened(ld)
  /\ UNCHANGED <<cfg, br, link, hd, cmd, op, xf, dp, conn, wire, mem, stopFile>>

\* the head of Process of the loaders that loop over records
ProcessStart ==
  /\ ld.pc = "process"
  /\ ld.name # "PGXLoader"
  /\ ld' = IF ~ld.opened THEN LdReturn(ld, "file not open")
           ELSE IF ~ld.handler THEN LdReturn(ld, "handler not set")
           ELSE [ld EXCEPT !.pc = "loop",
                           !.offset = IF ld.name \in {"WDCLoader", "PGZLoader"}
                                      THEN 1 ELSE 0]
  /\ UNCHANGED <<cfg, br, link, hd, cmd, op, xf, dp, conn, wire, mem, stopFile>>

(***************************************************************************)
(* WDCLoader.                                                              *)
(***************************************************************************)
Block(address, block, offset, err) ==
  [address |-> address, block |-> block, offset |-> offset, err |-> err]

\* WDCLoader.readBlock
WDCReadBlock(data, offset) ==
  IF offset + 6 > Len(data)
  THEN Block(0, <<>>, offset, "unexpected end of file")
  ELSE LET address == data[offset + 1] + (data[offset + 2] * 256)
                        + (data[offset + 3] * 65536)
           length == data[offset + 4] + (data[offset + 5] * 256)
                       + (data[offset + 6] * 65536)
       IN  IF address = 0 THEN Block(0, <<>>, offset + 6, "")
           ELSE IF offset + 6 + length > Len(data)
           THEN Block(0, <<>>, offset + 6, "data block exceeds file size")
           ELSE Block(address, SubSeq(data, offset + 7, offset + 6 + length),
                      offset + 6 + length, "")

\* one round of the loop of WDCLoader.Process, up to its call of the handler
WDCStep ==
  /\ ld.name = "WDCLoader"
  /\ ld.pc = "loop"
  /\ ld' = IF ~(ld.offset < Len(ld.file)) THEN LdReturn(ld, "")
           ELSE LET b == WDCReadBlock(ld.file, ld.offset)
                IN  IF b.err # "" THEN LdReturn(ld, b.err)
                    ELSE IF b.address = 0
                    THEN LdReturn([ld EXCEPT !.offset = b.offset], "")
                    ELSE LdCalls([ld EXCEPT !.offset = b.offset],
                                 <<Call("data", b.address, b.block)>>, "loop")
  /\ UNCHANGED <<cfg, br, link, hd, cmd, op, xf, dp, conn, wire, mem, stopFile>>

(***************************************************************************)
(* PGZLoader.                                                              *)
(***************************************************************************)
\* PGZLoader.readBlock
PGZReadBlock(data, addressSize, offset) ==
  IF offset + (addressSize * 2) > Len(data)
  THEN Block(0, <<>>, offset, "unexpected end of file")
  ELSE LET address == ReadLittleEndianInt(data, offset, addressSize)
           size == ReadLittleEndianInt(data, offset + addressSize, addressSize)
           off == offset + (addressSize * 2)
       IN  IF address = 0 THEN Block(0, <<>>, off, "")
           ELSE IF size = 0 THEN Block(address, <<>>, off, "")
           ELSE IF off + size > Len(data)
           THEN Block(0, <<>>, off, "data block exceeds file size")
           ELSE Block(address, SubSeq(data, off + 1, off + size), off + size, "")

PGZChunkSize == 1024

RECURSIVE PGZChunkLoop(_, _, _, _)
\* for totalLength > 0 { ... l.handler(address+uint32(chunkOffset), chunk) }
PGZChunkLoop(address, block, totalLength, chunkOffset) ==
  IF totalLength > 0
  THEN LET currentChunkSize == IF totalLength < PGZChunkSize THEN totalLength
                               ELSE PGZChunkSize
       IN  <<Call("data", address + chunkOffset,
                  SubSeq(block, chunkOffset + 1, chunkOffset + currentChunkSize))>>
             \o PGZChunkLoop(address, block, totalLength - currentChunkSize,
                             chunkOffset + currentChunkSize)
  ELSE <<>>

\* (a variant that writes every chunk at the address of the block)
PGZDataCallsSameAddress(address, block) ==
  IF Len(block) > PGZChunkSize
  THEN [i \in DOMAIN PGZChunkLoop(address, block, Len(block), 0) |->
          [PGZChunkLoop(address, block, Len(block), 0)[i] EXCEPT
             !.address = address]]
  ELSE <<Call("data", address, block)>>

\* the handler calls for a regular data block
PGZDataCalls(address, block) ==
  IF Len(block) > PGZChunkSize
  THEN PGZChunkLoop(address, block, Len(block), 0)
  ELSE <<Call("data", address, block)>>

\* one round of the loop of PGZLoader.Process, up to its calls of the handler
PGZStep ==
  /\ ld.name = "PGZLoader"
  /\ ld.pc = "loop"
  /\ ld' = IF ~(ld.offset < Len(ld.file)) THEN LdReturn(ld, "")
           ELSE LET b == PGZReadBlock(ld.file, ld.addressSize, ld.offset)
                    l == [ld EXCEPT !.offset = b.offset]
                IN  IF b.err # "" THEN LdReturn(ld, b.err)
                    ELSE IF b.address = 0 THEN LdReturn(l, "")
                    ELSE IF Len(b.block) = 0 /\ b.address > 0
                    THEN IF SetupResetVectors(cfg.CPU, b.address).err # ""
                         THEN LdReturn(l, "failed to set up reset vectors")
                         ELSE LdCalls(l, SetupResetVectors(cfg.CPU, b.address).calls,
                                      "loop")
                    ELSE LdCalls(l, PGZDataCalls(b.address, b.block), "loop")
  /\ UNCHANGED <<cfg, br, link, hd, cmd, op, xf, dp, conn, wire, mem, stopFile>>

(***************************************************************************)
(* PGXLoader.                                                              *)
(***************************************************************************)
PGXcpu65816 == 1
PGXcpu680X0 == 2
PGXcpu65C02 == 3
PGXOffSigStart == 0
PGXOffSigEnd == 3
PGXOffVersion == 3
PGXOffAddrStart == 4
PGXOffAddrEnd == 8
PGXOffData == 8

\* "PGX"
PGXSignature == <<80, 71, 88>>

\* (a variant that accepts a file for any configured CPU)
VerifyCPUCompatibilityAny(cpu, pgxCPU) ==
  IF pgxCPU \in {PGXcpu65816, PGXcpu65C02, PGXcpu680X0} THEN ""
  ELSE "unsupported PGX CPU type"

\* PGXLoader.verifyCPUCompatibility: the error, "" for nil
VerifyCPUCompatibility(cpu, pgxCPU) ==
  IF pgxCPU = PGXcpu65816
  THEN IF cpu # "65816" THEN "PGX is built for 65816" ELSE ""
  ELSE IF pgxCPU = PGXcpu65C02
  THEN IF cpu # "65C02" /\ cpu # "65c02" THEN "PGX is built for 65C02" ELSE ""
  ELSE IF pgxCPU = PGXcpu680X0
  THEN IF ~CPUIsMotorolatype680X0(cpu) THEN "PGX is built for 680x0" ELSE ""
  ELSE "unsupported PGX CPU type"

\* lines 162-192 of PGXLoader.Process: the error of its checks, "" if none
PGXCheck(l) ==
  IF ~l.opened THEN "file not open"
  ELSE IF ~l.handler THEN "handler not set"
  ELSE IF Len(l.file) < PGXOffData THEN "file too small to be valid PGX"
  ELSE IF SubSeq(l.file, PGXOffSigStart + 1, PGXOffSigEnd) # PGXSignature
  THEN "bad PGX signature"
  ELSE IF (l.file[PGXOffVersion + 1] \div 16) % 16 > 0
  THEN "unsupported PGX version"
  ELSE VerifyCPUCompatibility(cfg.CPU, l.file[PGXOffVersion + 1] % 16)

\* binary.LittleEndian.Uint32(l.data[PGXOffAddrStart:PGXOffAddrEnd])
PGXAddress(data) ==
  data[PGXOffAddrStart + 1] + (data[PGXOffAddrStart + 2] * 256)
    + (data[PGXOffAddrStart + 3] * 65536) + (data[PGXOffAddrStart + 4] * 16777216)

\* PGXLoader.Process up to l.handler(address, block)
PGXProcess ==
  /\ ld.name = "PGXLoader"
  /\ ld.pc = "process"
  /\ ld' = IF PGXCheck(ld) # "" THEN LdReturn(ld, PGXCheck(ld))
           ELSE LdCalls(ld, <<Call("data", PGXAddress(ld.file),
                                   SubSeq(ld.file, PGXOffData + 1, Len(ld.file)))>>,
                        "vectors")
  /\ UNCHANGED <<cfg, br, link, hd, cmd, op, xf, dp, conn, wire, mem, stopFile>>

\* SetupResetVectors(l.config.CPU, address, l.handler) and return nil
PGXVectors ==
  /\ ld.name = "PGXLoader"
  /\ ld.pc = "vectors"
  /\ ld' = IF SetupResetVectors(cfg.CPU, PGXAddress(ld.file)).err # ""
           THEN LdReturn(ld, "failed to set up reset vectors")
           ELSE LdCalls(ld, SetupResetVectors(cfg.CPU, PGXAddress(ld.file)).calls,
                        "returned")
  /\ UNCHANGED <<cfg, br, link, hd, cmd, op, xf, dp, conn, wire, mem, stopFile>>

(***************************************************************************)
(* The text formats.  A file is its sequence of lines, a line its sequence *)
(* of characters.                                                          *)
(***************************************************************************)
HexChars ==
  <<"0", "1", "2", "3", "4", "5", "6", "7", "8", "9", "A", "B", "C", "D", "E",
    "F", "a", "b", "c", "d", "e", "f">>

\* [0-9a-fA-F]
IsHexChar(c) == \E i \in DOMAIN HexChars : HexChars[i] = c

\* the value of a hexadecimal digit
HexValue(c) ==
  LET i == CHOOSE i \in DOMAIN HexChars : HexChars[i] = c
  IN  IF i > 16 THEN i - 7 ELSE i - 1

RECURSIVE HexRun(_, _)
\* the number of hexadecimal digits of line from position from (1-based) on
HexRun(line, from) ==
  IF from <= Len(line) /\ IsHexChar(line[from])
  THEN 1 + HexRun(line, from + 1)
  ELSE 0

RECURSIVE ParseUint(_)
\* strconv.ParseUint(digits, 16, ...) of a string of hexadecimal digits, its
\* error dropped: 0 for the empty string
ParseUint(digits) ==
  IF digits = <<>> THEN 0
  ELSE (ParseUint(SubSeq(digits, 1, Len(digits) - 1)) * 16)
         + HexValue(digits[Len(digits)])

\* hexStringToBytes of a string of hexadecimal digits of even length
HexStringToBytes(hexStr) ==
  [i \in 1 .. (Len(hexStr) \div 2) |->
     (HexValue(hexStr[(2 * i) - 1]) * 16) + HexValue(hexStr[2 * i])]

(***************************************************************************)
(* IntelHexLoader.                                                         *)
(***************************************************************************)
\* pattern.FindStringSubmatch(line) # nil, for
\* ^:(hh)(hhhh)(hh)(h*)(hh): a colon and at least ten hexadecimal digits
HexMatches(line) ==
  /\ Len(line) >= 1
  /\ line[1] = ":"
  /\ HexRun(line, 2) >= 10

\* the fields of a matching line: the greedy (h*) leaves the last two digits
\* of the run to the checksum
HexFields(line) ==
  LET r == HexRun(line, 2)
  IN  [byteCount |-> ParseUint(SubSeq(line, 2, 3)),
       address |-> ParseUint(SubSeq(line, 4, 7)),
       recordType |-> ParseUint(SubSeq(line, 8, 9)),
       dataHex |-> SubSeq(line, 10, r - 1)]

\* (a variant for which record type 0x01 does not end processing)
HexRecordNoEnd(l, f) ==
  IF f.recordType = 0
  THEN IF Len(f.dataHex) % 2 # 0 THEN LdReturn(l, "invalid data")
       ELSE IF Len(f.dataHex) \div 2 # f.byteCount
       THEN LdReturn(l, "byte count mismatch")
       ELSE LdCalls(l, <<Call("data", U32(l.baseAddress + f.address),
                              HexStringToBytes(f.dataHex))>>, "loop")
  ELSE IF f.recordType = 2
  THEN [l EXCEPT !.baseAddress = U32(ParseUint(f.dataHex) * 16)]
  ELSE IF f.recordType = 4
  THEN [l EXCEPT !.baseAddress = U32(ParseUint(f.dataHex) * 65536)]
  ELSE IF f.recordType \in {1, 3, 5} THEN l
  ELSE LdReturn(l, "unsupported record type")

\* (a variant for which an extended linear address is added to the base
\* address in place)
HexRecordAddsBase(l, f) ==
  IF f.recordType = 0
  THEN IF Len(f.dataHex) % 2 # 0 THEN LdReturn(l, "invalid data")
       ELSE IF Len(f.dataHex) \div 2 # f.byteCount
       THEN LdReturn(l, "byte count mismatch")
       ELSE LdCalls(l, <<Call("data", U32(l.baseAddress + f.address),
                              HexStringToBytes(f.dataHex))>>, "loop")
  ELSE IF f.recordType = 1 THEN LdReturn(l, "")
  ELSE IF f.recordType = 2
  THEN [l EXCEPT !.baseAddress = U32(ParseUint(f.dataHex) * 16)]
  ELSE IF f.recordType = 4
  THEN [l EXCEPT !.baseAddress = U32(@ + (ParseUint(f.dataHex) * 65536))]
  ELSE IF f.recordType \in {3, 5} THEN l
  ELSE LdReturn(l, "unsupported record type")

\* switch recordType
HexRecord(l, f) ==
  IF f.recordType = 0
  THEN IF Len(f.dataHex) % 2 # 0 THEN LdReturn(l, "invalid data")
       ELSE IF Len(f.dataHex) \div 2 # f.byteCount
       THEN LdReturn(l, "byte count mismatch")
       ELSE LdCalls(l, <<Call("data", U32(l.baseAddress + f.address),
                              HexStringToBytes(f.dataHex))>>, "loop")
  ELSE IF f.recordType = 1 THEN LdReturn(l, "")
  ELSE IF f.recordType = 2
  THEN [l EXCEPT !.baseAddress = U32(ParseUint(f.dataHex) * 16)]
  ELSE IF f.recordType = 4
  THEN [l EXCEPT !.baseAddress = U32(ParseUint(f.dataHex) * 65536)]
  ELSE IF f.recordType \in {3, 5} THEN l
  ELSE LdReturn(l, "unsupported record type")

\* one round of "for scanner.Scan()" of IntelHexLoader.Process; offset is
\* lineNum, scanOk: the scanner met no read error
HexStep ==
  /\ ld.name = "IntelHexLoader"
  /\ ld.pc = "loop"
  /\ \E scanOk \in BOOLEAN :
     ld' = IF ~scanOk THEN LdReturn(ld, "error reading file")
           ELSE IF ~(ld.offset < Len(ld.file)) THEN LdReturn(ld, "")
           ELSE LET line == ld.file[ld.offset + 1]
                    l == [ld EXCEPT !.offset = @ + 1]
                IN  IF Len(line) = 0 THEN l
                    ELSE IF ~HexMatches(line)
                    THEN LdReturn(l, "invalid Intel HEX format")
                    ELSE HexRecord(l, HexFields(line))
  /\ UNCHANGED <<cfg, br, link, hd, cmd, op, xf, dp, conn, wire, mem, stopFile>>

(***************************************************************************)
(* SRecLoader.                                                             *)
(***************************************************************************)
\* pattern.FindStringSubmatch(line) # nil, for ^S(h)(h+)
SRecMatches(line) ==
  /\ Len(line) >= 1
  /\ line[1] = "S"
  /\ HexRun(line, 2) >= 2

\* SRecLoader.parseDataRecord
ParseDataRecord(l, hexDigits, addressBytes) ==
  IF Len(hexDigits) < 2 + (addressBytes * 2) + 2
  THEN LdReturn(l, "SREC record too short")
  ELSE LET address == ParseUint(SubSeq(hexDigits, 3, 2 + (addressBytes * 2)))
           dataHex == SubSeq(hexDigits, 3 + (addressBytes * 2), Len(hexDigits) - 2)
       IN  IF Len(dataHex) % 2 # 0 THEN LdReturn(l, "invalid data")
           ELSE LdCalls(l, <<Call("data", U32(address), HexStringToBytes(dataHex))>>,
                        "loop")

\* switch recordType
SRecRecord(l, recordType, hexDigits) ==
  IF recordType \in {1, 2, 3}
  THEN ParseDataRecord(l, hexDigits, recordType + 1)
  ELSE IF recordType \in {0, 4, 5, 6, 7, 8, 9} THEN l
  ELSE LdReturn(l, "unsupported SREC type")

\* one round of "for scanner.Scan()" of SRecLoader.Process; offset is
\* lineNum, scanOk: the scanner met no read error
SRecStep ==
  /\ ld.name = "SRecLoader"
  /\ ld.pc = "loop"
  /\ \E scanOk \in BOOLEAN :
     ld' = IF ~scanOk THEN LdReturn(ld, "error reading file")
           ELSE IF ~(ld.offset < Len(ld.file)) THEN LdReturn(ld, "")
           ELSE LET line == ld.file[ld.offset + 1]
                    l == [ld EXCEPT !.offset = @ + 1]
                IN  IF Len(line) = 0 THEN l
                    ELSE IF ~SRecMatches(line)
                    THEN LdReturn(l, "invalid SREC format")
                    ELSE SRecRecord(l, HexValue(line[2]),
                                    SubSeq(line, 3, 1 + HexRun(line, 2)))
  /\ UNCHANGED <<cfg, br, link, hd, cmd, op, xf, dp, conn, wire, mem, stopFile>>

(***************************************************************************)
(* cmd: dump, lookup, deref, revision, boot, binary, upload, copy, stop    *)
(* and start.  Each run of the program is one command; what a run leaves   *)
(* behind is the stop indicator file and the memory of the target.         *)
(***************************************************************************)
\* copy.go: const maxFileSize = (7 * 65536) - (9 * 1024)
maxFileSize == 449536

\* the commands that read memory
ReadCommands == {"dump", "lookupLabel", "derefLabel"}

\* the two commands that upload a raw binary file
BinaryCommands == {"uploadBinary", "uploadM68kBinary"}

\* the commands of this section
Commands ==
  ReadCommands \cup BinaryCommands
    \cup {"revision", "setBootSource", "uploadFile", "copyFile", "stopCPU", "startCPU"}

\* validateConnectionFlags, the flags, the label file and the file to send:
\* everything before connection.NewConnection
Prologue ==
  /\ cmd.name \in Commands
  /\ cmd.pc = "start"
  /\ \E argsOk \in BOOLEAN :
        cmd' = IF cfg.Port = "" THEN Returned(cmd, "no port specified")
               ELSE IF cmd.name = "startCPU"
               THEN IF ~IsStopped THEN Returned(cmd, "")
                    ELSE [cmd EXCEPT !.pc = "openStart"]
               ELSE IF cmd.name = "stopCPU" THEN [cmd EXCEPT !.pc = "openStop"]
               ELSE IF cmd.name \in {"revision", "uploadFile"}
               THEN [cmd EXCEPT !.pc = "open"]
               ELSE IF ~argsOk THEN Returned(cmd, "invalid arguments")
               ELSE IF cmd.name = "uploadM68kBinary" /\ cmd.size < 8
               THEN Returned(cmd, "binary file too small")
               ELSE IF cmd.name = "copyFile" /\ cmd.size >= maxFileSize
               THEN Returned(cmd, "file too large")
               ELSE [cmd EXCEPT !.pc = "open"]
  /\ UNCHANGED <<cfg, br, link, hd, ld, op, xf, dp, conn, wire, mem, stopFile>>

\* dump.go 70, labels.go 118, 185: dp.ReadBlock(addr, count), or the three
\* bytes of the pointer of deref
ReadStart ==
  /\ cmd.name \in ReadCommands
  /\ cmd.pc = "body"
  /\ cmd' = [cmd EXCEPT !.pc = "reading"]
  /\ op' = NewOp("ReadBlock", 0, cmd.addr, <<>>,
                 IF cmd.name = "derefLabel" THEN 3 ELSE cmd.size, 0, 0)
  /\ UNCHANGED <<cfg, br, link, hd, ld, xf, dp, conn, wire, mem, stopFile>>

\* targetAddress := uint32(b[0]) | uint32(b[1])<<8 | uint32(b[2])<<16
TargetAddress(pointerBytes) ==
  pointerBytes[1] + (pointerBytes[2] * 256) + (pointerBytes[3] * 65536)

\* the first ReadBlock has returned
ReadDone ==
  /\ cmd.name \in ReadCommands
  /\ cmd.pc = "reading"
  /\ op.pc = "done"
  /\ IF StepFailed(op)
     THEN ReturnWith(cmd, IF cmd.name = "derefLabel" THEN "failed to read pointer"
                          ELSE "failed to read memory", wire)
     ELSE IF cmd.name = "derefLabel"
     THEN /\ cmd' = [cmd EXCEPT !.pc = "dereferencing",
                                !.address = TargetAddress(op.result)]
          /\ op' = NewOp("ReadBlock", 0, TargetAddress(op.result), <<>>,
                         cmd.size, 0, 0)
          /\ UNCHANGED <<conn, wire>>
     ELSE ReturnWith(cmd, "", wire)
  /\ UNCHANGED <<cfg, br, link, hd, ld, xf, dp, mem, stopFile>>

\* labels.go 198: dp.ReadBlock(targetAddress, count) has returned
Dereferenced ==
  /\ cmd.name = "derefLabel"
  /\ cmd.pc = "dereferencing"
  /\ op.pc = "done"
  /\ ReturnWith(cmd, IF StepFailed(op) THEN "failed to read dereferenced memory"
                     ELSE "", wire)
  /\ UNCHANGED <<cfg, br, link, hd, ld, xf, dp, mem, stopFile>>

\* rev, err := dp.GetRevision()
RevisionStart ==
  /\ cmd.name = "revision"
  /\ cmd.pc = "body"
  /\ cmd' = [cmd EXCEPT !.pc = "asking"]
  /\ op' = NewOp("GetRevision", 0, 0, <<>>, 0, 0, 0)
  /\ UNCHANGED <<cfg, br, link, hd, ld, xf, dp, conn, wire, mem, stopFile>>

RevisionDone ==
  /\ cmd.name = "revision"
  /\ cmd.pc = "asking"
  /\ op.pc = "done"
  /\ ReturnWith(cmd, IF StepFailed(op) THEN "failed to get revision" ELSE "", wire)
  /\ UNCHANGED <<cfg, br, link, hd, ld, xf, dp, mem, stopFile>>

\* boot.go 71-83: dp.SetBootSource(bootSrc)
BootStart ==
  /\ cmd.name = "setBootSource"
  /\ cmd.pc = "body"
  /\ cmd' = [cmd EXCEPT !.pc = "setting"]
  /\ op' = NewOp("SetBootSource", 0, 0, <<>>, 0, 0,
                 IF cmd.source = "ram" THEN BootSrcRAM ELSE BootSrcFlash)
  /\ UNCHANGED <<cfg, br, link, hd, ld, xf, dp, conn, wire, mem, stopFile>>

BootDone ==
  /\ cmd.name = "setBootSource"
  /\ cmd.pc = "setting"
  /\ op.pc = "done"
  /\ ReturnWith(cmd, IF StepFailed(op) THEN "failed to set boot source" ELSE "", wire)
  /\ UNCHANGED <<cfg, br, link, hd, ld, xf, dp, mem, stopFile>>

\* the loop "for offset := 0; offset < len(data); offset += chunkSize" of
\* uploadBinary and uploadM68kBinary, at its test, and what follows it
BinaryStep(c) ==
  IF c.offset < c.size
  THEN /\ cmd' = [c EXCEPT !.pc = "uploading"]
       /\ op' = NewOp("WriteBlock", 0, U32(c.addr + c.offset),
                      Slice(c.size, c.offset,
                            IF c.offset + cfg.ChunkSize > c.size
                            THEN c.size - c.offset ELSE cfg.ChunkSize), 0, 0, 0)
       /\ UNCHANGED <<conn, wire>>
  ELSE IF c.name = "uploadM68kBinary"
  THEN /\ cmd' = [c EXCEPT !.pc = "vectors"]
       /\ op' = NewOp("WriteBlock", 0, 0, Slice(c.size, 0, 8), 0, 0, 0)
       /\ UNCHANGED <<conn, wire>>
  ELSE ReturnWith(c, "", wire)

BinaryStart ==
  /\ cmd.name \in BinaryCommands
  /\ cmd.pc = "body"
  /\ BinaryStep([cmd EXCEPT !.offset = 0])
  /\ UNCHANGED <<cfg, br, link, hd, ld, xf, dp, mem, stopFile>>

\* dp.WriteBlock(addr+uint32(offset), chunk) has returned
BinaryUploaded ==
  /\ cmd.name \in BinaryCommands
  /\ cmd.pc = "uploading"
  /\ op.pc = "done"
  /\ IF StepFailed(op)
     THEN ReturnWith(cmd, "upload failed", wire)
     ELSE BinaryStep([cmd EXCEPT !.offset = @ + cfg.ChunkSize])
  /\ UNCHANGED <<cfg, br, link, hd, ld, xf, dp, mem, stopFile>>

\* part_003 315: dp.WriteBlock(0, data[0:8]) has returned
BinaryVectors ==
  /\ cmd.name = "uploadM68kBinary"
  /\ cmd.pc = "vectors"
  /\ op.pc = "done"
  /\ ReturnWith(cmd, IF StepFailed(op) THEN "failed to set reset vectors" ELSE "", wire)
  /\ UNCHANGED <<cfg, br, link, hd, ld, xf, dp, mem, stopFile>>

\* uploadFile 165-190: the loader of the format is created, ldr.Open is
\* called and the handler is set to dp.WriteBlock (Open does not read the
\* handler; Process follows it)
UploadCreate ==
  /\ cmd.name = "uploadFile"
  /\ cmd.pc = "body"
  /\ cmd' = [cmd EXCEPT !.pc = "loading"]
  /\ ld' = [ld EXCEPT !.pc = "new", !.handler = TRUE]
  /\ UNCHANGED <<cfg, br, link, hd, op, xf, dp, conn, wire, mem, stopFile>>

\* the handler: return dp.WriteBlock(address, data)
UploadHandler ==
  /\ cmd.name = "uploadFile"
  /\ ld.pc = "call"
  /\ op.pc = "idle"
  /\ op' = NewOp("WriteBlock", 0, Head(ld.queue).address, Head(ld.queue).data,
                 0, 0, 0)
  /\ UNCHANGED <<cfg, br, link, hd, ld, cmd, xf, dp, conn, wire, mem, stopFile>>

\* dp.WriteBlock has returned to the loader
UploadHandled ==
  /\ cmd.name = "uploadFile"
  /\ ld.pc = "call"
  /\ op.pc = "done"
  /\ ld' = AfterCall([ld EXCEPT !.calls =
                        Append(@, [call |-> Head(ld.queue), ok |-> ~StepFailed(op)])],
                     ~StepFailed(op))
  /\ op' = IdleOp
  /\ UNCHANGED <<cfg, br, link, hd, cmd, xf, dp, conn, wire, mem, stopFile>>

\* ldr.Open or ldr.Process has returned
UploadDone ==
  /\ cmd.name = "uploadFile"
  /\ cmd.pc = "loading"
  /\ ld.pc \in {"openfailed", "returned"}
  /\ ReturnWith(cmd, IF ld.pc = "openfailed" THEN "failed to open file"
                     ELSE IF ld.err # "" THEN "upload failed" ELSE "", wire)
  /\ ld' = [ld EXCEPT !.pc = "closed"]
  /\ UNCHANGED <<cfg, br, link, hd, xf, dp, mem, stopFile>>

\* copy.go 92-126: the name of the file and its 0, the CRC32 and the size
CopyHeader(c) ==
  <<c.basename, <<0>>, c.crc,
    <<c.size % 256, (c.size \div 256) % 256, (c.size \div 65536) % 256>>>>

\* "COPYFILE"
CopySignature == <<67, 79, 80, 89, 70, 73, 76, 69>>

\* the writes of copyFile, one after the other: four of the header from
\* 0x10000 on (idx 1..4), the chunks of the file behind them ("for
\* totalLength > 0") and the signature at 0x0080
CopyStep(c) ==
  IF c.idx <= 4
  THEN /\ cmd' = [c EXCEPT !.pc = "copying", !.toWrite = Len(CopyHeader(c)[c.idx])]
       /\ op' = NewOp("WriteBlock", 0, c.address, CopyHeader(c)[c.idx], 0, 0, 0)
  ELSE IF c.size - c.offset > 0
  THEN LET currentChunkSize == IF c.size - c.offset < cfg.ChunkSize
                               THEN c.size - c.offset ELSE cfg.ChunkSize
       IN  /\ cmd' = [c EXCEPT !.pc = "copying", !.toWrite = currentChunkSize]
           /\ op' = NewOp("WriteBlock", 0, c.address,
                          Slice(c.size, c.offset, currentChunkSize), 0, 0, 0)
  ELSE /\ cmd' = [c EXCEPT !.pc = "signing"]
       /\ op' = NewOp("WriteBlock", 0, 128, CopySignature, 0, 0, 0)

\* currentAddr := uint32(0x10000)
CopyStart ==
  /\ cmd.name = "copyFile"
  /\ cmd.pc = "body"
  /\ CopyStep([cmd EXCEPT !.address = 65536, !.idx = 1, !.offset = 0])
  /\ UNCHANGED <<cfg, br, link, hd, ld, xf, dp, conn, wire, mem, stopFile>>

CopyError(c) ==
  IF c.idx > 4 THEN "failed to write file chunk"
  ELSE <<"failed to write filename", "failed to write null terminator",
         "failed to write CRC32", "failed to write file size">>[c.idx]

\* one dp.WriteBlock(currentAddr, ...) of copyFile has returned
CopyWritten ==
  /\ cmd.name = "copyFile"
  /\ cmd.pc = "copying"
  /\ op.pc = "done"
  /\ IF StepFailed(op)
     THEN ReturnWith(cmd, CopyError(cmd), wire)
     ELSE /\ CopyStep([cmd EXCEPT
                         !.address = U32(@ + cmd.toWrite),
                         !.offset = IF cmd.idx > 4 THEN @ + cmd.toWrite ELSE @,
                         !.idx = IF cmd.idx > 4 THEN @ ELSE @ + 1])
          /\ UNCHANGED <<conn, wire>>
  /\ UNCHANGED <<cfg, br, link, hd, ld, xf, dp, mem, stopFile>>

\* dp.WriteBlock(0x0080, copySignature) has returned
CopySigned ==
  /\ cmd.name = "copyFile"
  /\ cmd.pc = "signing"
  /\ op.pc = "done"
  /\ ReturnWith(cmd, IF StepFailed(op) THEN "failed to write copy signature" ELSE "", wire)
  /\ UNCHANGED <<cfg, br, link, hd, ld, xf, dp, mem, stopFile>>

(***************************************************************************)
(* cmd/labels.go: stopCPU and startCPU, and the indicator file of util.    *)
(***************************************************************************)
\* stopCPU 269-281: conn.Open; defer conn.Close(); dp.EnterDebug()
StopOpen ==
  /\ cmd.name = "stopCPU"
  /\ cmd.pc = "openStop"
  /\ \E ok \in BOOLEAN :
        IF ~ok
        THEN /\ cmd' = Returned(cmd, "failed to open connection")
             /\ wire' = Append(wire, Ev("open", <<>>, "err", 0))
             /\ UNCHANGED <<op, conn>>
        ELSE /\ wire' = Append(wire, Ev("open", <<>>, "ok", 0))
             /\ conn' = [conn EXCEPT !.open = TRUE, !.opens = @ + 1]
             /\ op' = NewOp("EnterDebug", 0, 0, <<>>, 0, 0, 0)
             /\ cmd' = [cmd EXCEPT !.pc = "stopEnter", !.deferClose = TRUE]
  /\ UNCHANGED <<cfg, br, link, hd, ld, xf, dp, mem, stopFile>>

\* dp.EnterDebug() has returned; no dp.ExitDebug() is deferred
StopEntered ==
  /\ cmd.name = "stopCPU"
  /\ cmd.pc = "stopEnter"
  /\ op.pc = "done"
  /\ IF StepFailed(op)
     THEN ReturnWith(cmd, "failed to enter debug mode", wire)
     ELSE /\ cmd' = [cmd EXCEPT !.pc = "stopping"]
          /\ op' = NewOp("StopCPU", 0, 0, <<>>, 0, 0, 0)
          /\ UNCHANGED <<conn, wire>>
  /\ UNCHANGED <<cfg, br, link, hd, ld, xf, dp, mem, stopFile>>

\* util.SetStopIndicator: os.Create fails, or f.Close fails after the file
\* was created, or both succeed
SetStopIndicator(r) ==
  [file |-> IF r = "create" THEN stopFile ELSE TRUE,
   err |-> IF r = "ok" THEN "" ELSE "failed to set stop indicator"]

\* dp.StopCPU() has returned; util.SetStopIndicator()
Stopped ==
  /\ cmd.name = "stopCPU"
  /\ cmd.pc = "stopping"
  /\ op.pc = "done"
  /\ IF StepFailed(op)
     THEN /\ ReturnWith(cmd, "failed to stop CPU", wire)
          /\ stopFile' = stopFile
     ELSE \E r \in {"ok", "create", "close"} :
             /\ ReturnWith(cmd, SetStopIndicator(r).err, wire)
             /\ stopFile' = SetStopIndicator(r).file
  /\ UNCHANGED <<cfg, br, link, hd, ld, xf, dp, mem>>

\* startCPU 311-324: conn.Open; defer conn.Close(); dp.StartCPU()
StartOpen ==
  /\ cmd.name = "startCPU"
  /\ cmd.pc = "openStart"
  /\ \E ok \in BOOLEAN :
        IF ~ok
        THEN /\ cmd' = Returned(cmd, "failed to open connection")
             /\ wire' = Append(wire, Ev("open", <<>>, "err", 0))
             /\ UNCHANGED <<op, conn>>
        ELSE /\ wire' = Append(wire, Ev("open", <<>>, "ok", 0))
             /\ conn' = [conn EXCEPT !.open = TRUE, !.opens = @ + 1]
             /\ op' = NewOp("StartCPU", 0, 0, <<>>, 0, 0, 0)
             /\ cmd' = [cmd EXCEPT !.pc = "starting", !.deferClose = TRUE]
  /\ UNCHANGED <<cfg, br, link, hd, ld, xf, dp, mem, stopFile>>

\* dp.StartCPU() has returned; dp.ExitDebug()
Started ==
  /\ cmd.name = "startCPU"
  /\ cmd.pc = "starting"
  /\ op.pc = "done"
  /\ IF StepFailed(op)
     THEN ReturnWith(cmd, "failed to start CPU", wire)
     ELSE /\ cmd' = [cmd EXCEPT !.pc = "startExit"]
          /\ op' = NewOp("ExitDebug", 0, 0, <<>>, 0, 0, 0)
          /\ UNCHANGED <<conn, wire>>
  /\ UNCHANGED <<cfg, br, link, hd, ld, xf, dp, mem, stopFile>>

\* util.ClearStopIndicator: nil if the file is not there, else os.Remove
ClearStopIndicator(removeOk) ==
  [file |-> IF IsStopped /\ ~removeOk THEN TRUE ELSE FALSE,
   err |-> IF IsStopped /\ ~removeOk THEN "failed to clear stop indicator" ELSE ""]

\* dp.ExitDebug() has returned; util.ClearStopIndicator()
StartExited ==
  /\ cmd.name = "startCPU"
  /\ cmd.pc = "startExit"
  /\ op.pc = "done"
  /\ IF StepFailed(op)
     THEN /\ ReturnWith(cmd, "failed to exit debug mode", wire)
          /\ stopFile' = stopFile
     ELSE \E removeOk \in BOOLEAN :
             /\ ReturnWith(cmd, ClearStopIndicator(removeOk).err, wire)
             /\ stopFile' = ClearStopIndicator(removeOk).file
  /\ UNCHANGED <<cfg, br, link, hd, ld, xf, dp, mem>>

(***************************************************************************)
(* pkg/connection/bridge.go: the TCP-to-serial relay.  Every accepted      *)
(* client has its handler (a goroutine); the handlers share the serial     *)
(* device: what they write goes to it in the order they write, what it     *)
(* answers is read by whichever handler reads next.                        *)
(***************************************************************************)
cmdReadMem == 0
cmdWriteMem == 1

\* the clients that connect
Clients == {1, 2}

\* the variables of the program behind the relay
program == <<cfg, cmd, op, xf, dp, conn, wire, mem, stopFile, ld, link, hd>>

\* the frame of handleConnection: its position, the bytes the client has
\* sent and it has not read (inbox), its local variables, whether its
\* serialConn is open, and what went through it: the requests it has read
\* whole (requests), written to the serial device (sent), the answers of
\* the device to them (produced), the responses written to the client
\* (out), the calls of serial.Open that returned a connection (opens) and of
\* serialConn.Close (closes), the error it has printed
IdleHandler ==
  [pc |-> "idle", stream |-> <<>>, inbox |-> <<>>, header |-> <<>>,
   data |-> <<>>, lrcByte |-> <<>>, request |-> <<>>, open |-> FALSE,
   responseSyncByte |-> <<>>, responseStatusBytes |-> <<>>,
   responseData |-> <<>>, responseLrcByte |-> <<>>,
   requests |-> 0, sent |-> <<>>, produced |-> <<>>, out |-> <<>>,
   opens |-> 0, closes |-> 0, printed |-> ""]

\* the handlers, and the bytes the device has sent and no handler has read
IdleBr == [h |-> [c \in Clients |-> IdleHandler], rx |-> <<>>]

\* io.ReadFull(r, buf) with len(buf) = n on the bytes that are there
ReadFull(bytes, n, ok) ==
  IF ok /\ Len(bytes) >= n
  THEN [err |-> FALSE, buf |-> SubSeq(bytes, 1, n),
        rest |-> SubSeq(bytes, n + 1, Len(bytes))]
  ELSE [err |-> TRUE, buf |-> <<>>, rest |-> bytes]

\* command := header[1]
HeaderCommand(header) == header[2]

\* dataLength := uint16(header[5])<<8 | uint16(header[6])
HeaderDataLength(header) == (header[6] * 256) + header[7]

\* the variables declared in the body of the loop are gone at its end and
\* at a return
EndIteration(h, pc) ==
  [h EXCEPT !.pc = pc, !.header = <<>>, !.data = <<>>, !.lrcByte = <<>>,
            !.request = <<>>, !.responseSyncByte = <<>>,
            !.responseStatusBytes = <<>>, !.responseData = <<>>,
            !.responseLrcByte = <<>>]

\* fmt.Printf(msg); return, with the deferred tcpConn.Close()
HandlerReturn(h, msg) == EndIteration([h EXCEPT !.printed = msg], "returned")

\* (a variant that returns with serialConn left open)
SerialFailLeak(h, msg) == HandlerReturn(h, msg)

\* serialConn.Close(); fmt.Printf(msg); return
SerialFail(h, msg) ==
  HandlerReturn([h EXCEPT !.open = FALSE, !.closes = @ + 1], msg)

\* (a variant that goes on to the next request without a response)
RespondedNothing(h, response) == EndIteration(h, "header")

\* tcpConn.Write(response) has returned nil: the head of the loop is next
Responded(h, response) ==
  EndIteration([h EXCEPT !.out = Append(@, response)], "header")

\* what the device sends in answer to a request: bytes before the sync byte
\* or none, 0xAA, two status bytes, the bytes read for a read-memory
\* request, a checksum byte
DeviceResponse(request, junk, status) ==
  junk \o <<ResponseSyncByte>> \o status
       \o (IF PktCommand(request) = CMDReadMem
           THEN [i \in 1 .. PktLength(request) |-> 128 + i] ELSE <<>>)
       \o <<90>>

DeviceResponses(request) ==
  { DeviceResponse(request, <<>>, <<0, 0>>),
    DeviceResponse(request, <<>>, <<0, 1>>),
    DeviceResponse(request, <<85>>, <<0, 0>>) }

\* requests as DebugPort.transfer builds them: enter-debug, a write of two
\* bytes, a read of two bytes
EnterDebugRequest == Packet(CMDEnterDebug, 0, <<>>, 0)

WriteRequest == Packet(CMDWriteMem, 1193046, <<15, 60>>, 0)

ReadRequest == Packet(CMDReadMem, 16, <<>>, 2)

\* what a client sends: the first one nothing, a request, two requests, a
\* request cut short in its header or in its data; the second one a request
ClientStreams(c) ==
  IF c = 1
  THEN { <<>>, EnterDebugRequest, WriteRequest \o ReadRequest,
         SubSeq(EnterDebugRequest, 1, 3), SubSeq(WriteRequest, 1, 8) }
  ELSE { EnterDebugRequest, ReadRequest }

\* Listen 48-58: conn := listener.Accept(); go b.handleConnection(conn).
\* The client sends the bytes of stream, each request once the response to
\* the one before it has come, and closes.
Accept ==
  /\ \E c \in Clients :
     \E stream \in ClientStreams(c) :
        /\ br.h[c].pc = "idle"
        /\ br' = [br EXCEPT !.h[c] = [IdleHandler EXCEPT !.pc = "header",
                                                         !.stream = stream,
                                                         !.inbox = stream]]
  /\ UNCHANGED program

\* lines 67-81: the 7 bytes of the header
ReadHeader ==
  /\ \E c \in Clients, ok \in BOOLEAN :
        LET h == br.h[c]
            r == ReadFull(h.inbox, 7, ok)
        IN  /\ h.pc = "header"
            /\ br' = [br EXCEPT !.h[c] =
                        IF r.err THEN HandlerReturn(h, "Error reading header")
                        ELSE [h EXCEPT !.header = r.buf, !.inbox = r.rest,
                                       !.data = <<>>,
                                       !.pc = IF HeaderCommand(r.buf) = cmdWriteMem
                                              THEN "data" ELSE "lrc"]]
  /\ UNCHANGED program

\* lines 83-91: the data of a write command
ReadData ==
  /\ \E c \in Clients, ok \in BOOLEAN :
        LET h == br.h[c]
            r == ReadFull(h.inbox, HeaderDataLength(h.header), ok)
        IN  /\ h.pc = "data"
            /\ br' = [br EXCEPT !.h[c] =
                        IF r.err THEN HandlerReturn(h, "Error reading data")
                        ELSE [h EXCEPT !.data = r.buf, !.inbox = r.rest,
                                       !.pc = "lrc"]]
  /\ UNCHANGED program

\* lines 93-106: the LRC byte; request := header + data + lrcByte
ReadLRC ==
  /\ \E c \in Clients, ok \in BOOLEAN :
        LET h == br.h[c]
            r == ReadFull(h.inbox, 1, ok)
        IN  /\ h.pc = "lrc"
            /\ br' = [br EXCEPT !.h[c] =
                        IF r.err THEN HandlerReturn(h, "Error reading LRC")
                        ELSE [h EXCEPT !.lrcByte = r.buf, !.inbox = r.rest,
                                       !.request = h.header \o h.data \o r.buf,
                                       !.requests = @ + 1,
                                       !.pc = "serialOpen"]]
  /\ UNCHANGED program

\* lines 108-116: serial.Open(b.serialPort, mode)
SerialOpen ==
  /\ \E c \in Clients, ok \in BOOLEAN :
        LET h == br.h[c]
        IN  /\ h.pc = "serialOpen"
            /\ br' = [br EXCEPT !.h[c] =
                        IF ~ok
                        THEN HandlerReturn(h, "Error opening serial port")
                        ELSE [h EXCEPT !.open = TRUE, !.opens = @ + 1,
                                       !.pc = "serialWrite"]]
  /\ UNCHANGED program

\* lines 118-129: serialConn.Write(request); the device answers a request
\* that was written whole
SerialWrite ==
  /\ \E c \in Clients, res \in {"ok", "err", "short"} :
        LET h == br.h[c]
        IN  /\ h.pc = "serialWrite"
            /\ IF res # "ok"
               THEN br' = [br EXCEPT !.h[c] =
                             SerialFail(h, IF res = "err"
                                           THEN "Error writing to serial port"
                                           ELSE "Serial write error")]
               ELSE \E response \in DeviceResponses(h.request) :
                       br' = [br EXCEPT
                                !.h[c] = [h EXCEPT !.pc = "sync",
                                                   !.sent = Append(@, h.request),
                                                   !.produced = Append(@, response)],
                                !.rx = @ \o response]
  /\ UNCHANGED program

\* a read of n bytes from the serial device by handler c: an error, or the
\* next n bytes once the device has sent them
SerialRead(c, n, ok, field, next, msg) ==
  LET h == br.h[c]
      r == ReadFull(br.rx, n, ok)
  IN  /\ ok => Len(br.rx) >= n
      /\ br' = IF r.err
               THEN [br EXCEPT !.h[c] = SerialFail(h, msg)]
               ELSE [br EXCEPT !.h[c] = [h EXCEPT ![field] = r.buf, !.pc = next],
                               !.rx = r.rest]

\* lines 132-138: responseSyncByte, one byte
ReadResponseSync ==
  /\ \E c \in Clients, ok \in BOOLEAN :
        /\ br.h[c].pc = "sync"
        /\ SerialRead(c, 1, ok, "responseSyncByte", "status",
                      "Error reading response sync")
  /\ UNCHANGED program

\* lines 140-146: responseStatusBytes, two bytes
ReadResponseStatus ==
  /\ \E c \in Clients, ok \in BOOLEAN :
        /\ br.h[c].pc = "status"
        /\ SerialRead(c, 2, ok, "responseStatusBytes",
                      IF /\ HeaderCommand(br.h[c].header) = cmdReadMem
                         /\ HeaderDataLength(br.h[c].header) > 0
                      THEN "respData" ELSE "respLrc",
                      "Error reading status bytes")
  /\ UNCHANGED program

\* lines 148-157: responseData, for a read command with dataLength > 0
ReadResponseData ==
  /\ \E c \in Clients, ok \in BOOLEAN :
        /\ br.h[c].pc = "respData"
        /\ SerialRead(c, HeaderDataLength(br.h[c].header), ok, "responseData",
                      "respLrc", "Error reading response data")
  /\ UNCHANGED program

\* lines 159-165: responseLrcByte, one byte
ReadResponseLRC ==
  /\ \E c \in Clients, ok \in BOOLEAN :
        /\ br.h[c].pc = "respLrc"
        /\ SerialRead(c, 1, ok, "responseLrcByte", "close",
                      "Error reading response LRC")
  /\ UNCHANGED program

\* line 167: serialConn.Close()
SerialClose ==
  /\ \E c \in Clients :
        /\ br.h[c].pc = "close"
        /\ br' = [br EXCEPT !.h[c] = [@ EXCEPT !.open = FALSE, !.closes = @ + 1,
                                                  !.pc = "respond"]]
  /\ UNCHANGED program

\* lines 169-176: response := sync + status + data + lrc
Response(h) ==
  h.responseSyncByte \o h.responseStatusBytes \o h.responseData
    \o h.responseLrcByte

\* lines 178-182: tcpConn.Write(response)
Respond ==
  /\ \E c \in Clients, ok \in BOOLEAN :
        LET h == br.h[c]
        IN  /\ h.pc = "respond"
            /\ br' = [br EXCEPT !.h[c] =
                        IF ~ok
                        THEN HandlerReturn(h, "Error writing response to TCP")
                        ELSE Responded(h, Response(h))]
  /\ UNCHANGED program

(***************************************************************************)
(* pkg/connection: the two implementations of Connection.                  *)
(***************************************************************************)
\* the most calls made on one Connection
MaxCalls == 4

\* NewConnection(port): &SerialConnection{} or &TCPConnection{}.  handle is
\* what s.port / t.conn refers to: nothing ("nil"), a port or socket that is
\* open ("live"), one that has been closed ("closed"); isOpen is the field
\* of TCPConnection; calls is the log of the calls and what they returned
NewConnection(kind) ==
  [kind |-> kind, handle |-> "nil", isOpen |-> FALSE, calls |-> <<>>]

\* no Connection yet
IdleLink == NewConnection("none")

\* a bool as the log shows it
Bool(b) == IF b THEN "true" ELSE "false"

\* a call and what it returned
Called(method, result) == [method |-> method, result |-> result]

\* SerialConnection.Open: config.Load() if there is no configuration, serial.Open
\* (a second time if the first fails), port.SetReadTimeout; s.port = port
SerialConnectionOpen ==
  /\ link.kind = "serial"
  /\ Len(link.calls) < MaxCalls
  /\ \E loaded \in BOOLEAN, first \in BOOLEAN, second \in BOOLEAN,
        timeoutSet \in BOOLEAN :
        link' = IF ~loaded
                THEN [link EXCEPT !.calls =
                        Append(@, Called("Open", "failed to load config"))]
                ELSE IF ~first /\ ~second
                THEN [link EXCEPT !.calls =
                        Append(@, Called("Open", "failed to open serial port"))]
                ELSE IF ~timeoutSet
                THEN [link EXCEPT !.calls =
                        Append(@, Called("Open", "failed to set read timeout"))]
                ELSE [link EXCEPT !.handle = "live",
                                  !.calls = Append(@, Called("Open", ""))]
  /\ UNCHANGED <<cfg, cmd, op, xf, dp, conn, wire, mem, stopFile, ld, br, hd>>

\* SerialConnection.Close: if s.port == nil { return nil }; return s.port.Close()
SerialConnectionClose ==
  /\ link.kind = "serial"
  /\ Len(link.calls) < MaxCalls
  /\ \E closed \in BOOLEAN :
        link' = IF link.handle = "nil"
                THEN [link EXCEPT !.calls = Append(@, Called("Close", ""))]
                ELSE [link EXCEPT !.handle = "closed",
                                  !.calls = Append(@, Called("Close",
                                              IF closed THEN "" ELSE "error"))]
  /\ UNCHANGED <<cfg, cmd, op, xf, dp, conn, wire, mem, stopFile, ld, br, hd>>

\* SerialConnection.IsOpen: return s.port != nil
SerialConnectionIsOpen ==
  /\ link.kind = "serial"
  /\ Len(link.calls) < MaxCalls
  /\ link' = [link EXCEPT !.calls =
                 Append(@, Called("IsOpen", Bool(link.handle # "nil")))]
  /\ UNCHANGED <<cfg, cmd, op, xf, dp, conn, wire, mem, stopFile, ld, br, hd>>

\* TCPConnection.Open: host:port, net.DialTimeout; t.conn = conn; t.isOpen = true
TCPConnectionOpen ==
  /\ link.kind = "tcp"
  /\ Len(link.calls) < MaxCalls
  /\ \E formatOk \in BOOLEAN, dialled \in BOOLEAN :
        link' = IF ~formatOk
                THEN [link EXCEPT !.calls =
                        Append(@, Called("Open", "invalid TCP address format"))]
                ELSE IF ~dialled
                THEN [link EXCEPT !.calls =
                        Append(@, Called("Open", "failed to connect"))]
                ELSE [link EXCEPT !.handle = "live", !.isOpen = TRUE,
                                  !.calls = Append(@, Called("Open", ""))]
  /\ UNCHANGED <<cfg, cmd, op, xf, dp, conn, wire, mem, stopFile, ld, br, hd>>

\* TCPConnection.Close: if t.conn == nil { return nil }; t.isOpen = false;
\* return t.conn.Close()
TCPConnectionClose ==
  /\ link.kind = "tcp"
  /\ Len(link.calls) < MaxCalls
  /\ \E closed \in BOOLEAN :
        link' = IF link.handle = "nil"
                THEN [link EXCEPT !.calls = Append(@, Called("Close", ""))]
                ELSE [link EXCEPT !.handle = "closed", !.isOpen = FALSE,
                                  !.calls = Append(@, Called("Close",
                                              IF closed THEN "" ELSE "error"))]
  /\ UNCHANGED <<cfg, cmd, op, xf, dp, conn, wire, mem, stopFile, ld, br, hd>>

\* TCPConnection.IsOpen: return t.isOpen
TCPConnectionIsOpen ==
  /\ link.kind = "tcp"
  /\ Len(link.calls) < MaxCalls
  /\ link' = [link EXCEPT !.calls = Append(@, Called("IsOpen", Bool(link.isOpen)))]
  /\ UNCHANGED <<cfg, cmd, op, xf, dp, conn, wire, mem, stopFile, ld, br, hd>>

(***************************************************************************)
(* The request of a write-sink call, as far as its header.                 *)
(***************************************************************************)
\* no call yet
IdleHd == [loader |-> "none", header |-> <<>>, data |-> 0]

(***************************************************************************)
(* Spec: one call of a DebugPort method on an open connection.             *)
(***************************************************************************)
\* uint8
Sectors == 0 .. 255

\* 0x000000, 0x123456, 0xFFFFFF and 0x01020304
TransferAddresses == {0, 1193046, 16777215, 16909060}

DefaultCfg ==
  [Port |-> "COM3", CPU |-> "65c02", ChunkSize |-> 4096, FlashSize |-> 524288,
   flashPageSize |-> 0, flashSectorSize |-> 0, ramSize |-> 0]

SessionCalls ==
  {NewOp("transfer", c, a, d, n, 0, 0) :
     c \in {CMDReadMem, CMDWriteMem, CMDRevision}, a \in TransferAddresses,
     d \in SeqsUpTo(DataBytes, MaxData), n \in 0 .. MaxRead}
  \cup {NewOp(name, 0, 0, <<>>, 0, 0, 0) :
     name \in {"EnterDebug", "ExitDebug", "StopCPU", "StartCPU",
               "GetRevision", "EraseFlash"}}
  \cup {NewOp("ReadBlock", 0, a, <<>>, n, 0, 0) :
     a \in {0, 2, 1193046}, n \in 0 .. MaxRead}
  \cup {NewOp("ProgramFlash", 0, a, <<>>, 0, 0, 0) : a \in TransferAddresses}
  \cup {NewOp("WriteBlock", 0, a, d, 0, 0, 0) :
     a \in 0 .. MaxAddress, d \in SeqsUpTo(DataBytes, MaxBlock)}
  \cup {NewOp(name, 0, 0, <<>>, 0, s, 0) :
     name \in {"EraseSector", "ProgramSector"}, s \in Sectors}
  \cup {NewOp("SetBootSource", 0, 0, <<>>, 0, 0, b) : b \in 0 .. 2}

Init ==
  /\ \E call \in SessionCalls, cpu \in {"65c02", "68040"} :
        /\ (cpu = "65c02" \/ call.name = "WriteBlock")
        /\ op = call
        /\ cfg = [DefaultCfg EXCEPT !.CPU = cpu]
  /\ cmd = IdleCmd
  /\ xf = IdleXf
  /\ dp = [status0 |-> 0, status1 |-> 0]
  /\ conn = [open |-> TRUE, opens |-> 1, closes |-> 0]
  /\ wire = <<>>
  /\ mem = MemInit
  /\ br = IdleBr
  /\ link = IdleLink
  /\ hd = IdleHd
  /\ ld = IdleLd
  /\ stopFile = FALSE

Next == Transfer \/ Session

Spec == Init /\ [][Next]_vars


(***************************************************************************)
(* SpecFull: one run of "flash" on a whole image.                          *)
(***************************************************************************)
\* the values of chunk_size and flash_size in foenixmgr.ini, of --address
FullChunkSizes == {1, 2, 4}

FullFlashSizes == {4}

FullAddresses == {0, 2, 3670016}

InitFull ==
  /\ \E n \in 0 .. MaxImage, a \in FullAddresses, chunk \in FullChunkSizes,
        flash \in FullFlashSizes, cpu \in {"65c02", "68040"} :
        /\ cfg = [DefaultCfg EXCEPT !.CPU = cpu, !.ChunkSize = chunk,
                                    !.FlashSize = flash]
        /\ cmd = [IdleCmd EXCEPT !.name = "flashProgramFull", !.pc = "start",
                                 !.addr = a, !.size = n]
  /\ op = IdleOp
  /\ xf = IdleXf
  /\ dp = [status0 |-> 0, status1 |-> 0]
  /\ conn = [open |-> FALSE, opens |-> 0, closes |-> 0]
  /\ wire = <<>>
  /\ mem = MemInit
  /\ br = IdleBr
  /\ link = IdleLink
  /\ hd = IdleHd
  /\ ld = IdleLd
  /\ stopFile \in BOOLEAN

NextFull ==
  \/ FlashFull
  \/ SimpleStart
  \/ OpReturn
  \/ WriteBlockStart
  \/ WriteBlock32Modify
  \/ Transfer

SpecFull == InitFull /\ [][NextFull]_vars

(***************************************************************************)
(* SpecSector: one run of "flash --flash-sector".                           *)
(***************************************************************************)
\* --flash-sector
SectorArgs == {BadSector, 0, 64, 255}

\* the lengths of the file
SectorSizes == {0, 100, 8192, 32768}

\* the runs: --target, the length of the file, chunk_size, cpu, --flash-sector and
\* whether the stop indicator exists.  Every run that the checks before the
\* connection reject, and three that they accept.
SectorRuns ==
  {<<t, n, 4096, "65c02", s, FALSE>> :
     t \in {"", "a2560"}, n \in SectorSizes, s \in SectorArgs}
  \cup {<<t, n, 4096, "65c02", s, FALSE>> :
     t \in {"f256k", "fnx1591"}, n \in {0, 100}, s \in SectorArgs}
  \cup {<<"f256k", 32768, 4096, "65c02", s, FALSE>> : s \in SectorArgs}
  \cup {<<"fnx1591", 8192, 4096, "65c02", s, FALSE>> : s \in SectorArgs}
  \cup {<<"f256k", 8192, 4096, "65c02", BadSector, TRUE>>,
        <<"fnx1591", 32768, 4096, "65c02", BadSector, FALSE>>}
  \cup {<<"f256k", 8192, 4096, "65c02", 255, FALSE>>,
        <<"f256jr", 8192, 8190, "68040", 0, TRUE>>,
        <<"fnx1591", 32768, 30000, "65c02", 64, FALSE>>}

InitSector ==
  /\ \E run \in SectorRuns :
        /\ cfg = IF run[1] = ""
                 THEN [DefaultCfg EXCEPT !.ChunkSize = run[3], !.CPU = run[4]]
                 ELSE SetTarget([DefaultCfg EXCEPT !.ChunkSize = run[3],
                                                   !.CPU = run[4]], run[1])
        /\ cmd = [IdleCmd EXCEPT !.name = "flashProgramSector", !.pc = "start",
                                 !.sector = run[5], !.size = run[2]]
        /\ stopFile = run[6]
  /\ op = IdleOp
  /\ xf = IdleXf
  /\ dp = [status0 |-> 0, status1 |-> 0]
  /\ conn = [open |-> FALSE, opens |-> 0, closes |-> 0]
  /\ wire = <<>>
  /\ mem = MemInit
  /\ br = IdleBr
  /\ link = IdleLink
  /\ hd = IdleHd
  /\ ld = IdleLd

NextSector ==
  \/ FlashSector
  \/ SimpleStart
  \/ OpReturn
  \/ WriteBlockStart
  \/ WriteBlock32Modify
  \/ EraseSectorStart
  \/ EraseSectorSecond
  \/ EraseSectorReturn
  \/ ProgramSectorStart
  \/ ProgramSectorReturn
  \/ Transfer

SpecSector == InitSector /\ [][NextSector]_vars


(***************************************************************************)
(* SpecBulk: one run of "flash-bulk".                                      *)
(***************************************************************************)
\* the records a CSV file is made of
BulkRecords ==
  {<<1, 3>>, <<129, 0>>, <<BadSector, 2>>, <<3, BadFile>>, <<4>>}

InitBulk ==
  /\ \E recs \in SeqsUpTo(BulkRecords, MaxRecords), erase \in BOOLEAN,
        cpu \in {"65c02", "68040"} :
        /\ cfg = [DefaultCfg EXCEPT !.CPU = cpu, !.ChunkSize = 2]
        /\ cmd = [IdleCmd EXCEPT !.name = "flashBulkProgram", !.pc = "start",
                                 !.records = recs, !.eraseFirst = erase]
  /\ op = IdleOp
  /\ xf = IdleXf
  /\ dp = [status0 |-> 0, status1 |-> 0]
  /\ conn = [open |-> FALSE, opens |-> 0, closes |-> 0]
  /\ wire = <<>>
  /\ mem = MemInit
  /\ br = IdleBr
  /\ link = IdleLink
  /\ hd = IdleHd
  /\ ld = IdleLd
  /\ stopFile \in BOOLEAN

NextBulk ==
  \/ FlashBulk
  \/ SimpleStart
  \/ OpReturn
  \/ WriteBlockStart
  \/ WriteBlock32Modify
  \/ EraseSectorStart
  \/ EraseSectorSecond
  \/ EraseSectorReturn
  \/ ProgramSectorStart
  \/ ProgramSectorReturn
  \/ Transfer

SpecBulk == InitBulk /\ [][NextBulk]_vars


(***************************************************************************)
(* SpecFlash: one run of any of the three flash commands.                  *)
(***************************************************************************)
InitFlash ==
  /\ \/ \E n \in 0 .. MaxImage, cpu \in {"65c02", "68040"} :
           /\ cfg = [DefaultCfg EXCEPT !.CPU = cpu, !.ChunkSize = 2]
           /\ cmd = [IdleCmd EXCEPT !.name = "flashProgramFull",
                                    !.pc = "start", !.addr = 2, !.size = n]
           /\ stopFile = FALSE
     \/ \E run \in SectorRuns :
           /\ cfg = IF run[1] = ""
                    THEN [DefaultCfg EXCEPT !.ChunkSize = run[3], !.CPU = run[4]]
                    ELSE SetTarget([DefaultCfg EXCEPT !.ChunkSize = run[3],
                                                      !.CPU = run[4]], run[1])
           /\ cmd = [IdleCmd EXCEPT !.name = "flashProgramSector",
                                    !.pc = "start", !.sector = run[5],
                                    !.size = run[2]]
           /\ stopFile = run[6]
     \/ \E recs \in SeqsUpTo(BulkRecords, MaxRecords), erase \in BOOLEAN :
           /\ cfg = [DefaultCfg EXCEPT !.ChunkSize = 2]
           /\ cmd = [IdleCmd EXCEPT !.name = "flashBulkProgram",
                                    !.pc = "start", !.records = recs,
                                    !.eraseFirst = erase]
           /\ stopFile = FALSE
  /\ op = IdleOp
  /\ xf = IdleXf
  /\ dp = [status0 |-> 0, status1 |-> 0]
  /\ conn = [open |-> FALSE, opens |-> 0, closes |-> 0]
  /\ wire = <<>>
  /\ mem = MemInit
  /\ br = IdleBr
  /\ link = IdleLink
  /\ hd = IdleHd
  /\ ld = IdleLd

NextFlash ==
  \/ FullPrologue
  \/ FullUploadStart
  \/ FullUploaded
  \/ FullErased
  \/ FullProgrammed
  \/ SectorPrologue
  \/ SectorStart
  \/ SectorWritten
  \/ SectorErased
  \/ SectorPageProgrammed
  \/ SectorTailProgrammed
  \/ BulkPrologue
  \/ BulkStart
  \/ BulkErased
  \/ BulkUploaded
  \/ BulkSectorErased
  \/ BulkProgrammed
  \/ Open
  \/ Entered
  \/ DeferredClose
  \/ SimpleStart
  \/ OpReturn
  \/ WriteBlockStart
  \/ WriteBlock32Modify
  \/ EraseSectorStart
  \/ EraseSectorSecond
  \/ EraseSectorReturn
  \/ ProgramSectorStart
  \/ ProgramSectorReturn
  \/ Transfer

SpecFlash == InitFlash /\ [][NextFlash]_vars

(***************************************************************************)
(* SpecLoader: one loader on one file: Open (or not) and then Process,     *)
(* with a handler that may fail at any call.                               *)
(***************************************************************************)
\* the most blocks or lines of a file
MaxBlocks == 2

RECURSIVE Flatten(_)
Flatten(ss) == IF ss = <<>> THEN <<>> ELSE Head(ss) \o Flatten(Tail(ss))

\* n as byteCount bytes, little-endian
LittleEndian(n, byteCount) == [i \in 1 .. byteCount |-> ByteOf(n, i - 1)]

\* the bytes of a block of the WDC format (3-byte fields) or of the PGZ
\* format (addressSize-byte fields) announcing size bytes and holding data
BlockBytes(addressSize, address, size, data) ==
  LittleEndian(address, addressSize) \o LittleEndian(size, addressSize) \o data

\* block contents of n bytes
BlockData(n) == [i \in 1 .. n |-> ((i * 11) % 255) + 1]

\* blocks: three of data (one with an address of four bytes), an entry
\* address in bank 0 and one in bank 1, the terminator without and with a
\* size, a header cut short and a block longer than the file
SmallBlocks(addressSize) ==
  { BlockBytes(addressSize, 16, 2, <<1, 2>>),
    BlockBytes(addressSize, 65536, 1, <<3>>),
    BlockBytes(addressSize, 16777232, 1, <<4>>),
    BlockBytes(addressSize, 0, 2, <<>>),
    BlockBytes(addressSize, 8192, 0, <<>>),
    BlockBytes(addressSize, 73728, 0, <<>>),
    BlockBytes(addressSize, 0, 0, <<>>),
    <<16, 0, 0>>,
    BlockBytes(addressSize, 16, 5, <<1>>) }

\* sizes of the PGZ data blocks around the chunk size
LargeSizes == {PGZChunkSize, PGZChunkSize + 1, 2 * PGZChunkSize, (2 * PGZChunkSize) + 1}

\* a block, the terminator and another block
AroundTerminator(addressSize) ==
  { x \o BlockBytes(addressSize, 0, 0, <<>>) \o y :
      x \in SmallBlocks(addressSize), y \in SmallBlocks(addressSize) }

WDCFiles ==
  {<<>>, <<91>>} \cup
  { <<90>> \o Flatten(bs) : bs \in SeqsUpTo(SmallBlocks(3), MaxBlocks) } \cup
  { <<90>> \o bs : bs \in AroundTerminator(3) }

PGZFiles ==
  {<<>>, <<80>>} \cup
  UNION { { <<h>> \o Flatten(bs) :
              bs \in SeqsUpTo(SmallBlocks(PGZAddressSize(h)), MaxBlocks) }
          \cup
          { <<h>> \o bs : bs \in AroundTerminator(PGZAddressSize(h)) }
          \cup
          { <<h>> \o Flatten(pre)
                  \o BlockBytes(PGZAddressSize(h), 512, n, BlockData(n))
                  \o Flatten(post) :
              n \in LargeSizes,
              pre \in SeqsUpTo({BlockBytes(PGZAddressSize(h), 16, 2, <<1, 2>>)}, 1),
              post \in SeqsUpTo({BlockBytes(PGZAddressSize(h), 8192, 0, <<>>),
                                 <<16, 0, 0>>}, 1) }
          : h \in {90, 122} }

PGXFiles ==
  {<<>>, <<80, 71, 88, 1, 0, 32, 0>>, <<80, 71, 90, 1, 0, 32, 0, 0, 9>>} \cup
  { PGXSignature \o <<v>> \o a \o d :
      v \in {0, 1, 2, 3, 4, 17},
      a \in {<<0, 32, 0, 0>>, <<0, 0, 1, 0>>, <<4, 3, 2, 1>>},
      d \in {<<>>, <<9>>, <<7, 8>>} }

\*   ":020010000A0BD9"      data 0A 0B at 0x0010
\*   ":01002000C31C"        data C3 at 0x0020
\*   ":0100300055aazz"      data 55 at 0x0030, lower case digits, trailing text
\*   ":00000001FF"          end of file
\*   ":020000040001F9"      extended linear address 0x0001
\*   ":020000020010EC"      extended segment address 0x0010
\*   ":0400000500000000F7"  start linear address
\*   ":03001000AABB00"      byte count 3 with two bytes of data
\*   ":02001000AAB00"       odd number of data digits
\*   ":0200"                too short for the pattern
\*   ":00000006FA"          record type 0x06
\*   ""                     empty line
HexLines ==
  { <<":", "0", "2", "0", "0", "1", "0", "0", "0", "0", "A", "0", "B", "D", "9">>,
    <<":", "0", "1", "0", "0", "2", "0", "0", "0", "C", "3", "1", "C">>,
    <<":", "0", "1", "0", "0", "3", "0", "0", "0", "5", "5", "a", "a", "z", "z">>,
    <<":", "0", "0", "0", "0", "0", "0", "0", "1", "F", "F">>,
    <<":", "0", "2", "0", "0", "0", "0", "0", "4", "0", "0", "0", "1", "F", "9">>,
    <<":", "0", "2", "0", "0", "0", "0", "0", "2", "0", "0", "1", "0", "E", "C">>,
    <<":", "0", "4", "0", "0", "0", "0", "0", "5", "0", "0", "0", "0", "0", "0", "0", "0", "F", "7">>,
    <<":", "0", "3", "0", "0", "1", "0", "0", "0", "A", "A", "B", "B", "0", "0">>,
    <<":", "0", "2", "0", "0", "1", "0", "0", "0", "A", "A", "B", "0", "0">>,
    <<":", "0", "2", "0", "0">>,
    <<":", "0", "0", "0", "0", "0", "0", "0", "6", "F", "A">>,
    <<>> }

\* the lines of HexLines that are extended-address records, and those that
\* are data records with as many bytes as they announce
HexExtendedLines ==
  {x \in HexLines : HexMatches(x) /\ HexFields(x).recordType \in {2, 4}}

HexDataLines ==
  {x \in HexLines : /\ HexMatches(x)
                     /\ HexFields(x).recordType = 0
                     /\ Len(HexFields(x).dataHex) = 2 * HexFields(x).byteCount}

\* files of two extended-address records and a data record, and files of
\* a data record on either side of an extended-address record
HexBaseFiles ==
  { <<e, f, d>> : e \in HexExtendedLines, f \in HexExtendedLines, d \in HexDataLines }
    \cup
  { <<c, e, d>> : c \in HexDataLines, e \in HexExtendedLines, d \in HexDataLines }

\* files of at most MaxBlocks lines, files of a line, an end-of-file record
\* and another line, and the files of HexBaseFiles
HexFiles ==
  SeqsUpTo(HexLines, MaxBlocks) \cup
  { <<x, <<":", "0", "0", "0", "0", "0", "0", "0", "1", "F", "F">>, y>> :
      x \in HexLines, y \in HexLines } \cup
  HexBaseFiles

\*   "S1051000AABB00"       S1: data AA BB at 0x1000
\*   "S2050100000C00"       S2: data 0C at 0x010000
\*   "S30600000020DD00"     S3: data DD at 0x00000020
\*   "S70500000000FA"       S7: start address
\*   "S804000000FB"         S8: start address
\*   "S9031000EC"           S9: start address
\*   "S0030000FC"           S0: header
\*   "S5030001FB"           S5: record count
\*   "S1031000"             S1 too short
\*   "S1041000A00"          S1 with an odd number of data digits
\*   "SA00"                 type A
\*   "X123"                 no S
\*   ""                     empty line
SRecLines ==
  { <<"S", "1", "0", "5", "1", "0", "0", "0", "A", "A", "B", "B", "0", "0">>,
    <<"S", "2", "0", "5", "0", "1", "0", "0", "0", "0", "0", "C", "0", "0">>,
    <<"S", "3", "0", "6", "0", "0", "0", "0", "0", "0", "2", "0", "D", "D", "0", "0">>,
    <<"S", "7", "0", "5", "0", "0", "0", "0", "0", "0", "0", "0", "F", "A">>,
    <<"S", "8", "0", "4", "0", "0", "0", "0", "0", "0", "F", "B">>,
    <<"S", "9", "0", "3", "1", "0", "0", "0", "E", "C">>,
    <<"S", "0", "0", "3", "0", "0", "0", "0", "F", "C">>,
    <<"S", "5", "0", "3", "0", "0", "0", "1", "F", "B">>,
    <<"S", "1", "0", "3", "1", "0", "0", "0">>,
    <<"S", "1", "0", "4", "1", "0", "0", "0", "A", "0", "0">>,
    <<"S", "A", "0", "0">>,
    <<"X", "1", "2", "3">>,
    <<>> }

\* files of at most MaxBlocks lines, and files of a line, a start record and
\* another line
SRecFiles ==
  SeqsUpTo(SRecLines, MaxBlocks) \cup
  { <<x, s, y>> :
      x \in SRecLines, y \in SRecLines,
      s \in {t \in SRecLines : Len(t) > 1 /\ t[2] \in {"7", "8", "9"}} }

\* the configured CPUs: the supported families in their spellings, and one
\* that is none of them
LoaderCPUs == {"65816", "65c02", "65C02", "m68k", "68040", "z80"}

LoaderFiles(name) ==
  CASE name = "WDCLoader" -> WDCFiles
    [] name = "PGZLoader" -> PGZFiles
    [] name = "PGXLoader" -> PGXFiles
    [] name = "IntelHexLoader" -> HexFiles
    [] name = "SRecLoader" -> SRecFiles

Loaders == {"WDCLoader", "PGZLoader", "PGXLoader", "IntelHexLoader", "SRecLoader"}

InitLoader ==
  /\ cfg \in {[DefaultCfg EXCEPT !.CPU = c] : c \in LoaderCPUs}
  /\ cmd = IdleCmd
  /\ op = IdleOp
  /\ xf = IdleXf
  /\ dp = [status0 |-> 0, status1 |-> 0]
  /\ conn = [open |-> FALSE, opens |-> 0, closes |-> 0]
  /\ wire = <<>>
  /\ mem = MemInit
  /\ br = IdleBr
  /\ link = IdleLink
  /\ hd = IdleHd
  /\ stopFile = FALSE
  /\ \E name \in Loaders :
       \E file \in LoaderFiles(name), handler \in BOOLEAN, pc \in {"new", "process"} :
          /\ name \in {"WDCLoader", "IntelHexLoader", "SRecLoader"}
               => cfg.CPU = DefaultCfg.CPU
          /\ ld = [IdleLd EXCEPT !.name = name, !.file = file,
                                 !.handler = handler, !.pc = pc]

NextLoader ==
  \/ LoaderOpen
  \/ ProcessStart
  \/ WDCStep
  \/ PGZStep
  \/ PGXProcess
  \/ PGXVectors
  \/ HexStep
  \/ SRecStep
  \/ Sink

SpecLoader == InitLoader /\ [][NextLoader]_vars

(***************************************************************************)
(* SpecVectors: one call of SetupResetVectors, with a handler that may     *)
(* fail at any call.                                                       *)
(***************************************************************************)
\* the CPUs of LoaderCPUs and more that are of no family
VectorCPUs == LoaderCPUs \cup {"68000", "68060", "", "6502", "65C816", "68k"}

\* entry addresses in bank 0, in other banks, and beyond 24 bits
VectorAddresses ==
  {0, 8192, 32768, 65535, 65536, 98304, 1193046, 16711680, 16777232, 16909060}

InitVectors ==
  /\ cfg \in {[DefaultCfg EXCEPT !.CPU = c] : c \in VectorCPUs}
  /\ cmd = IdleCmd
  /\ op = IdleOp
  /\ xf = IdleXf
  /\ dp = [status0 |-> 0, status1 |-> 0]
  /\ conn = [open |-> FALSE, opens |-> 0, closes |-> 0]
  /\ wire = <<>>
  /\ mem = MemInit
  /\ br = IdleBr
  /\ link = IdleLink
  /\ hd = IdleHd
  /\ stopFile = FALSE
  /\ \E a \in VectorAddresses :
        ld = [IdleLd EXCEPT !.name = "SetupResetVectors", !.pc = "process",
                            !.handler = TRUE, !.startAddress = a]

NextVectors ==
  \/ ResetVectors
  \/ Sink

SpecVectors == InitVectors /\ [][NextVectors]_vars

(***************************************************************************)
(* SpecCommands: runs of the program one after the other, on one target    *)
(* and in one working directory.  Every run is a new process: a new        *)
(* connection, a new DebugPort, a new transport log.                       *)
(***************************************************************************)
\* the files of upload, run-pgx, run-pgz, upload-srec and upload-wdc: for
\* each loader a file that loads and one that does not
UploadFiles(name) ==
  CASE name = "WDCLoader" ->
         { <<90>> \o BlockBytes(3, 16, 2, <<1, 2>>) \o BlockBytes(3, 0, 0, <<>>),
           <<91>> }
    [] name = "PGZLoader" ->
         { <<90>> \o BlockBytes(3, 65536, 1, <<3>>) \o BlockBytes(3, 8192, 0, <<>>),
           <<90, 16, 0, 0>> }
    [] name = "PGXLoader" ->
         { PGXSignature \o <<v>> \o <<0, 32, 0, 0>> \o <<9>> : v \in {1, 3} }
    [] name = "IntelHexLoader" ->
         { <<<<":", "0", "1", "0", "0", "2", "0", "0", "0", "C", "3", "1", "C">>,
             <<":", "0", "0", "0", "0", "0", "0", "0", "1", "F", "F">>>>,
           <<<<":", "0", "2", "0", "0">>>> }
    [] name = "SRecLoader" ->
         { <<<<"S", "2", "0", "5", "0", "1", "0", "0", "0", "0", "0", "C", "0", "0">>,
             <<"S", "9", "0", "3", "1", "0", "0", "0", "E", "C">>>>,
           <<<<"X", "1", "2", "3">>>> }

\* a run: the command with its flags and files, the configuration and the
\* file of the loader
CommandRun(c, config, l) == [cmd |-> c, cfg |-> config, ld |-> l]

NewCmd(name) == [IdleCmd EXCEPT !.name = name, !.pc = "start"]

CommandRuns ==
  { CommandRun([NewCmd(name) EXCEPT !.addr = a, !.size = 2], DefaultCfg, IdleLd) :
      name \in {"dump", "lookupLabel"}, a \in {2, 1193046} }
  \cup
  { CommandRun([NewCmd("derefLabel") EXCEPT !.addr = a, !.size = 1], DefaultCfg, IdleLd) :
      a \in {0, 1193046} }
  \cup
  { CommandRun(NewCmd(name), DefaultCfg, IdleLd) :
      name \in {"revision", "stopCPU", "startCPU"} }
  \cup
  { CommandRun([NewCmd("setBootSource") EXCEPT !.source = s], DefaultCfg, IdleLd) :
      s \in {"ram", "flash"} }
  \cup
  { CommandRun([NewCmd("uploadBinary") EXCEPT !.addr = 3670016, !.size = n],
               [DefaultCfg EXCEPT !.ChunkSize = 2], IdleLd) : n \in {0, 3} }
  \cup
  { CommandRun([NewCmd("uploadM68kBinary") EXCEPT !.addr = 65538, !.size = n],
               [DefaultCfg EXCEPT !.ChunkSize = 6, !.CPU = "68040"], IdleLd) :
      n \in {7, 8} }
  \cup
  { CommandRun([NewCmd("copyFile") EXCEPT !.size = n, !.basename = <<70>>,
                                          !.crc = <<1, 2, 3, 4>>],
               [DefaultCfg EXCEPT !.ChunkSize = 2], IdleLd) :
      n \in {0, 3, maxFileSize} }
  \cup
  UNION { { CommandRun(NewCmd("uploadFile"), DefaultCfg,
                       [IdleLd EXCEPT !.name = name, !.file = file]) :
              file \in UploadFiles(name) } : name \in Loaders }
  \cup
  { CommandRun([NewCmd("flashProgramFull") EXCEPT !.addr = 3670016, !.size = n],
               [DefaultCfg EXCEPT !.ChunkSize = 2, !.FlashSize = 2], IdleLd) :
      n \in {2} }
  \cup
  { CommandRun([NewCmd("flashBulkProgram") EXCEPT !.records = recs,
                                                  !.eraseFirst = erase],
               [DefaultCfg EXCEPT !.ChunkSize = 2], IdleLd) :
      recs \in {<<<<1, 3>>>>}, erase \in BOOLEAN }

InitCommands ==
  /\ cfg = DefaultCfg
  /\ cmd = IdleCmd
  /\ op = IdleOp
  /\ xf = IdleXf
  /\ dp = [status0 |-> 0, status1 |-> 0]
  /\ conn = [open |-> FALSE, opens |-> 0, closes |-> 0]
  /\ wire = <<>>
  /\ mem = MemInit
  /\ br = IdleBr
  /\ link = IdleLink
  /\ hd = IdleHd
  /\ ld = IdleLd
  /\ stopFile = FALSE

\* the program is run: main, config.Load, cobra's RunE
Run ==
  /\ cmd.pc \in {"idle", "returned"}
  /\ \E run \in CommandRuns :
        /\ cmd' = run.cmd
        /\ cfg' = run.cfg
        /\ ld' = run.ld
  /\ op' = IdleOp
  /\ xf' = IdleXf
  /\ dp' = [status0 |-> 0, status1 |-> 0]
  /\ conn' = [open |-> FALSE, opens |-> 0, closes |-> 0]
  /\ wire' = <<>>
  /\ UNCHANGED <<mem, stopFile, br, link, hd>>

NextCommands ==
  \/ Run
  \/ Prologue
  \/ Open
  \/ Entered
  \/ DeferredClose
  \/ ReadStart
  \/ ReadDone
  \/ Dereferenced
  \/ RevisionStart
  \/ RevisionDone
  \/ BootStart
  \/ BootDone
  \/ BinaryStart
  \/ BinaryUploaded
  \/ BinaryVectors
  \/ UploadCreate
  \/ UploadHandler
  \/ UploadHandled
  \/ UploadDone
  \/ CopyStart
  \/ CopyWritten
  \/ CopySigned
  \/ StopOpen
  \/ StopEntered
  \/ Stopped
  \/ StartOpen
  \/ Started
  \/ StartExited
  \/ LoaderOpen
  \/ ProcessStart
  \/ WDCStep
  \/ PGZStep
  \/ PGXProcess
  \/ PGXVectors
  \/ HexStep
  \/ SRecStep
  \/ FullPrologue
  \/ FullUploadStart
  \/ FullUploaded
  \/ FullErased
  \/ FullProgrammed
  \/ BulkPrologue
  \/ BulkStart
  \/ BulkErased
  \/ BulkUploaded
  \/ BulkSectorErased
  \/ BulkProgrammed
  \/ SimpleStart
  \/ OpReturn
  \/ SetBootSourceStart
  \/ WriteBlockStart
  \/ WriteBlock32Modify
  \/ EraseSectorStart
  \/ EraseSectorSecond
  \/ EraseSectorReturn
  \/ ProgramSectorStart
  \/ ProgramSectorReturn
  \/ Transfer

SpecCommands == InitCommands /\ [][NextCommands]_vars

(***************************************************************************)
(* SpecRelay: the relay with two clients.  A client sends requests of the  *)
(* debug session, one or two, whole or cut short, or nothing.              *)
(***************************************************************************)
InitRelay ==
  /\ cfg = DefaultCfg
  /\ cmd = IdleCmd
  /\ op = IdleOp
  /\ xf = IdleXf
  /\ dp = [status0 |-> 0, status1 |-> 0]
  /\ conn = [open |-> FALSE, opens |-> 0, closes |-> 0]
  /\ wire = <<>>
  /\ mem = MemInit
  /\ br = IdleBr
  /\ link = IdleLink
  /\ hd = IdleHd
  /\ ld = IdleLd
  /\ stopFile = FALSE

NextRelay ==
  \/ Accept
  \/ ReadHeader
  \/ ReadData
  \/ ReadLRC
  \/ SerialOpen
  \/ SerialWrite
  \/ ReadResponseSync
  \/ ReadResponseStatus
  \/ ReadResponseData
  \/ ReadResponseLRC
  \/ SerialClose
  \/ Respond

SpecRelay == InitRelay /\ [][NextRelay]_vars

(***************************************************************************)
(* SpecConnection: up to MaxCalls calls of Open, Close and IsOpen, in any   *)
(* order, on a serial and on a TCP Connection.                              *)
(***************************************************************************)
InitConnection ==
  /\ cfg = DefaultCfg
  /\ cmd = IdleCmd
  /\ op = IdleOp
  /\ xf = IdleXf
  /\ dp = [status0 |-> 0, status1 |-> 0]
  /\ conn = [open |-> FALSE, opens |-> 0, closes |-> 0]
  /\ wire = <<>>
  /\ mem = MemInit
  /\ br = IdleBr
  /\ link \in {NewConnection("serial"), NewConnection("tcp")}
  /\ hd = IdleHd
  /\ ld = IdleLd
  /\ stopFile = FALSE

NextConnection ==
  \/ SerialConnectionOpen
  \/ SerialConnectionClose
  \/ SerialConnectionIsOpen
  \/ TCPConnectionOpen
  \/ TCPConnectionClose
  \/ TCPConnectionIsOpen

SpecConnection == InitConnection /\ [][NextConnection]_vars

(***************************************************************************)
(* SpecLength: the headers of the requests of write-sink calls with blocks  *)
(* of up to 131075 bytes.                                                   *)
(***************************************************************************)
\* the lengths of the blocks the loaders hand over whole, and where they go
BlockLengths ==
  {1, 2, 255, 256, 1024, 65535, 65536, 65536 + 1, 131072, 131072 + 3}

BlockAddresses == {0, 16, 8192, 65536, 1193046, 16777215}

\* the handler of uploadFile, dp.WriteBlock(addr, data), called by the PGX
\* or the WDC loader with a block of n bytes, on a CPU without the 32-bit
\* adapter: transfer(CMDWriteMem, addr, data, 0) as far as its header.  Of
\* the packet the header and the number of data bytes appended to it are
\* kept.  One call is followed.
HandlerHeader ==
  /\ hd = IdleHd
  /\ \E name \in {"PGXLoader", "WDCLoader"}, n \in BlockLengths,
        address \in BlockAddresses :
        LET data == BlockData(n)
            length == TransferLength(data, 0)
        IN  hd' = [loader |-> name,
                   header |-> Header(CMDWriteMem, address, length),
                   data |-> Len(data)]
  /\ UNCHANGED <<cfg, cmd, op, xf, dp, conn, wire, mem, stopFile, ld, br, link>>

InitLength ==
  /\ cfg = DefaultCfg
  /\ cmd = IdleCmd
  /\ op = IdleOp
  /\ xf = IdleXf
  /\ dp = [status0 |-> 0, status1 |-> 0]
  /\ conn = [open |-> FALSE, opens |-> 0, closes |-> 0]
  /\ wire = <<>>
  /\ mem = MemInit
  /\ br = IdleBr
  /\ link = IdleLink
  /\ hd = IdleHd
  /\ ld = IdleLd
  /\ stopFile = FALSE

NextLength == HandlerHeader

SpecLength == InitLength /\ [][NextLength]_vars

(***************************************************************************)
(* SpecChunks: the chunk loops of uploadChunked and of uploadBinary alone, *)
(* for the values of chunk_size that config.Load accepts, with a           *)
(* write-block that always returns.                                        *)
(***************************************************************************)
\* config.go 85: section.Key("chunk_size").MustInt(4096) takes any integer
\* of the file; 0 is one of them
ConfigChunkSizes == {0, 1, 2, 4, 4096}

\* dp.WriteBlock(address, chunk) returns, with an error or without one
WriteBlockReturns ==
  /\ cmd.pc = "uploading"
  /\ op.name = "WriteBlock"
  /\ op.pc = "start"
  /\ \E err \in {"", "failed to write block"} :
        op' = [op EXCEPT !.pc = "done", !.err = err]
  /\ UNCHANGED <<cfg, cmd, xf, dp, conn, wire, mem, stopFile, ld, br, link, hd>>

InitChunks ==
  /\ \E n \in 0 .. MaxImage, a \in FullAddresses, chunk \in ConfigChunkSizes,
        name \in {"flashProgramFull", "uploadBinary"} :
        /\ cfg = [DefaultCfg EXCEPT !.ChunkSize = chunk]
        /\ cmd = [IdleCmd EXCEPT !.name = name, !.pc = "body",
                                 !.addr = a, !.size = n]
  /\ op = IdleOp
  /\ xf = IdleXf
  /\ dp = [status0 |-> 0, status1 |-> 0]
  /\ conn = [open |-> FALSE, opens |-> 0, closes |-> 0]
  /\ wire = <<>>
  /\ mem = MemInit
  /\ br = IdleBr
  /\ link = IdleLink
  /\ hd = IdleHd
  /\ ld = IdleLd
  /\ stopFile = FALSE

NextChunks ==
  \/ FullUploadStart
  \/ FullUploaded
  \/ BinaryStart
  \/ BinaryUploaded
  \/ WriteBlockReturns

SpecChunks == InitChunks /\ [][NextChunks]_vars

\* every step of the loops is a step of the one goroutine of the command,
\* which runs whenever it can
SpecChunksFair == SpecChunks /\ WF_vars(NextChunks)






(***************************************************************************)
(* Properties of the request and of the response, under Spec.              *)
(***************************************************************************)
\* the log entries that are writes of a request
WireWrites == SelectSeq(wire, LAMBDA e : e.k = "write")

\* transfer has put its request on the transport
Written == NumWrites(xf) > 0

RECURSIVE XorAll(_)
\* the XOR of the bytes of s
XorAll(s) == IF s = <<>> THEN 0 ELSE Xor(s[1], XorAll(Tail(s)))

Reads(x) == SelectSeq(x.ios, LAMBDA io : io.k = "read")

\* the number of bytes discarded before the response sync byte
Discarded(x) ==
  Cardinality({i \in DOMAIN Reads(x) :
                 /\ Reads(x)[i].n = 1
                 /\ Reads(x)[i].bytes # <<ResponseSyncByte>>
                 /\ \A j \in 1 .. i : Reads(x)[j].bytes # <<ResponseSyncByte>>})

\* the sizes of the reads of a complete response after j discarded bytes
ResponseReads(j, readLength) ==
  [i \in 1 .. j |-> 1] \o <<1, 2>>
    \o (IF readLength > 0 THEN <<readLength>> ELSE <<>>) \o <<1>>

\* C3: a transfer that returns has read single bytes up to the first 0xAA,
\* then 2 status bytes, then readLength data bytes iff readLength > 0, then 1
\* checksum byte; it returns the data bytes, and it succeeds exactly when no
\* transport call failed, whatever the checksum byte was.
C3_ResponseOrder ==
  LET r == Reads(xf)
      j == Discarded(xf)
      want == ResponseReads(j, xf.readLength)
  IN  /\ Len(r) <= Len(want)
      /\ \A i \in 1 .. Len(r) : r[i].n = want[i]
      /\ \A i \in 1 .. Len(r) :
           r[i].res = "ok" => (r[i].bytes = <<ResponseSyncByte>>) = (i = j + 1) \/ i > j + 1
      /\ (xf.pc \in {"ret", "idle"} /\ Written) =>
           /\ (xf.err = "") = (\A i \in DOMAIN xf.ios : xf.ios[i].res = "ok")
           /\ xf.err = "" =>
                /\ Len(r) = Len(want)
                /\ xf.readBytes = (IF xf.readLength > 0 THEN r[j + 3].bytes ELSE <<>>)
                /\ Len(xf.readBytes) = xf.readLength

\* a successful read of 2 bytes after a discarded byte, with a checksum byte
\* that is not the XOR of the response
C3_Witness ==
  /\ xf.pc = "ret"
  /\ xf.err = ""
  /\ xf.readLength = 2
  /\ Discarded(xf) = 1
  /\ LET r == Reads(xf)
     IN  r[Len(r)].bytes
           # <<Xor(ResponseSyncByte,
                   Xor(XorAll(r[3].bytes), XorAll(r[4].bytes)))>>

Adapter == op.name = "WriteBlock" /\ cfg.CPU \in {"68040", "68060"}

RoundUp4(n) == ((n + 3) \div 4) * 4

AdapterDirect(address, data) == (address % 4) = 0 /\ (Len(data) % 4) = 0

\* the requests the adapter is to make for (address, data), as
\* <<command, address, length field, data>>: the first one
AdapterFirst(address, data) ==
  IF AdapterDirect(address, data)
  THEN <<CMDWriteMem, address, Len(data), data>>
  ELSE <<CMDReadMem, address - (address % 4),
         RoundUp4(Len(data) + (address % 4)), <<>> >>

\* and the second one, given the bytes the read returned
AdapterSecond(address, data, read) ==
  <<CMDWriteMem, address - (address % 4),
    RoundUp4(Len(data) + (address % 4)),
    SubSeq(read, 1, address % 4) \o data
      \o SubSeq(read, (address % 4) + Len(data) + 1, Len(read))>>

\* the requests written so far, decoded
Requests ==
  [i \in DOMAIN WireWrites |->
     <<PktCommand(WireWrites[i].pkt), PktAddress(WireWrites[i].pkt),
       PktLength(WireWrites[i].pkt), PktData(WireWrites[i].pkt)>>]

\* C5: on a 68040 / 68060, WriteBlock of an aligned address and length makes
\* one write-memory request for (address, data) and no read; otherwise one
\* read-memory request of the aligned length at the aligned address, then one
\* write-memory request at the aligned address whose data are the bytes read
\* with data laid over them at offset address % 4.
C5_AdapterRequests ==
  Adapter =>
    LET direct == AdapterDirect(op.address, op.data)
    IN  /\ Len(Requests) <= (IF direct THEN 1 ELSE 2)
        /\ Len(Requests) >= 1 => Requests[1] = AdapterFirst(op.address, op.data)
        /\ Len(Requests) = 2 =>
             /\ Len(op.block) = RoundUp4(Len(op.data) + (op.address % 4))
             /\ Requests[2] = AdapterSecond(op.address, op.data, op.block)
        /\ (op.pc = "done" /\ op.err = "") =>
             Len(Requests) = (IF direct THEN 1 ELSE 2)

\* an unaligned write that needed padding on both sides has completed
C5_Witness ==
  /\ Adapter
  /\ op.pc = "done"
  /\ op.err = ""
  /\ op.address = 1
  /\ Len(op.data) = 2
  /\ Len(Requests) = 2

\* C6: after a successful adapter write the target memory is what a direct
\* byte-granular write gives: data in [address, address + len(data)), every
\* other byte, the padding of the aligned range included, as it was.
C6_AdapterMemory ==
  (Adapter /\ op.pc = "done" /\ op.err = "") =>
    mem = [a \in DOMAIN MemInit |->
             IF a >= op.address /\ a < op.address + Len(op.data)
             THEN op.data[a - op.address + 1]
             ELSE MemInit[a]]

\* 5 bytes written at address 3: padding before and behind
C6_Witness ==
  /\ Adapter
  /\ op.pc = "done"
  /\ op.err = ""
  /\ op.address = 3
  /\ Len(op.data) = 5
  /\ mem[2] = MemInit[2]
  /\ mem[3] = op.data[1]
  /\ mem[8] = MemInit[8]

(***************************************************************************)
(* Properties of EraseSector and ProgramSector, under Spec.                *)
(***************************************************************************)
\* C7 (as claimed): for every sector s in 0..255, the two transfers of
\* EraseSector(s) have the addresses (2s) << 16 and (2s+1) << 16, in that
\* order, and the transfer of ProgramSector(s) has the address (2s) << 16.
C7_SectorAddresses ==
  /\ (op.name = "EraseSector" /\ Written) =>
        /\ xf.command = CMDEraseSector
        /\ Len(WireWrites) \in {1, 2}
        /\ Len(WireWrites) = 1 => xf.address = (2 * op.sector) * 65536
        /\ Len(WireWrites) = 2 => xf.address = ((2 * op.sector) + 1) * 65536
  /\ (op.name = "ProgramSector" /\ Written) =>
        /\ xf.command = CMDProgramSector
        /\ Len(WireWrites) = 1
        /\ xf.address = (2 * op.sector) * 65536

\* the delay that is to follow a completed command
DelayAfter(command) ==
  IF command = CMDEraseSector THEN 1
  ELSE IF command = CMDProgramSector THEN 2
  ELSE 0

\* C8: every completed erase-sector request is followed by a 1 s sleep and
\* every completed program-sector request by a 2 s sleep before anything else
\* happens on the transport, whatever the status bytes were; the method does
\* not return success before it, and no request is sent twice.
C8_FlashDelays ==
  /\ \A i \in DOMAIN wire :
        (/\ wire[i].k = "write"
         /\ PktCommand(wire[i].pkt) \in {CMDEraseSector, CMDProgramSector}) =>
          /\ (i + 1) \in DOMAIN wire =>
               wire[i + 1].k = "resp"
          /\ ((i + 2) \in DOMAIN wire /\ wire[i + 1].res = "ok") =>
               /\ wire[i + 2].k = "sleep"
               /\ wire[i + 2].d = DelayAfter(PktCommand(wire[i].pkt))
          /\ (op.pc = "done" /\ op.err = "") => (i + 2) \in DOMAIN wire
  /\ \A i, j \in DOMAIN WireWrites :
        (i # j /\ op.name \in {"EraseSector", "ProgramSector"}) =>
          WireWrites[i].pkt # WireWrites[j].pkt

\* both erase commands of a sector completed with non-zero status bytes and
\* each was followed by its delay
C8_Witness ==
  /\ op.name = "EraseSector"
  /\ op.pc = "done"
  /\ op.err = ""
  /\ dp.status0 = 1
  /\ dp.status1 = 1
  /\ Len(wire) = 6
  /\ wire[3].k = "sleep"
  /\ wire[6].k = "sleep"

(***************************************************************************)
(* Properties of the flash commands, under SpecFull and SpecSector.        *)
(***************************************************************************)
\* the requests a flash command puts on the transport between entering and
\* leaving debug mode
FlashWrites ==
  SelectSeq(wire, LAMBDA e : /\ e.k = "write"
                             /\ PktCommand(e.pkt) \notin {CMDEnterDebug, CMDExitDebug})

\* 0 for the requests of the upload, 1 for erase-flash, 2 for program-flash
Rank(e) ==
  IF PktCommand(e.pkt) = CMDEraseFlash THEN 1
  ELSE IF PktCommand(e.pkt) = CMDProgramFlash THEN 2
  ELSE 0

RECURSIVE UploadedFrom(_)
\* the data of the write-memory requests from the i-th on, in order
UploadedFrom(i) ==
  IF i > Len(FlashWrites) THEN <<>>
  ELSE IF PktCommand(FlashWrites[i].pkt) = CMDWriteMem
  THEN PktData(FlashWrites[i].pkt) \o UploadedFrom(i + 1)
  ELSE UploadedFrom(i + 1)

\* the request at i of the log failed: it was not written whole, or its
\* response was not read whole
FailedAt(i) ==
  /\ wire[i].k = "write"
  /\ \/ wire[i].res # "ok"
     \/ /\ (i + 1) \in DOMAIN wire
        /\ wire[i + 1].k = "resp"
        /\ wire[i + 1].res # "ok"

Succeeded == cmd.pc = "returned" /\ cmd.err = "" /\ ~cmd.cancelled

\* C9: a whole-image run sends, between entering and leaving debug mode,
\* only the requests of the upload, then at most one erase-flash, then at
\* most one program-flash, in that order.  Erase-flash is sent only once
\* every chunk of the image has been uploaded to the staging address,
\* program-flash only right after an erase-flash that succeeded, and with
\* the staging address.  After a request that failed nothing is sent but the
\* leaving of debug mode, and erase-flash and program-flash directly follow
\* the complete response to the request before them.  A run that succeeds
\* has sent both, and an image whose length differs from flash_size is
\* warned about, not refused.
C9_FullImageOrder ==
  cmd.name = "flashProgramFull" =>
    /\ \A i \in DOMAIN FlashWrites :
          /\ PktCommand(FlashWrites[i].pkt)
               \in {CMDReadMem, CMDWriteMem, CMDEraseFlash, CMDProgramFlash}
          /\ \A j \in DOMAIN FlashWrites :
                i < j => IF Rank(FlashWrites[j]) = 0
                         THEN Rank(FlashWrites[i]) = 0
                         ELSE Rank(FlashWrites[i]) < Rank(FlashWrites[j])
          /\ Rank(FlashWrites[i]) = 1 =>
                /\ cmd.offset = cmd.size
                /\ cfg.CPU = "65c02" => UploadedFrom(1) = FileData(cmd.size)
                /\ \A j \in 1 .. (i - 1) :
                      /\ cfg.CPU = "65c02" =>
                           PktAddress(FlashWrites[j].pkt)
                             = (cmd.addr + ((j - 1) * cfg.ChunkSize)) % 16777216
                      /\ FlashWrites[j].res = "ok"
          /\ Rank(FlashWrites[i]) = 2 =>
                /\ i > 1
                /\ Rank(FlashWrites[i - 1]) = 1
                /\ FlashWrites[i - 1].res = "ok"
                /\ PktAddress(FlashWrites[i].pkt) = cmd.addr % 16777216
    /\ \A i \in DOMAIN wire :
          FailedAt(i) =>
            \A j \in (i + 1) .. Len(wire) :
               wire[j].k = "write" => PktCommand(wire[j].pkt) = CMDExitDebug
    /\ \A i \in DOMAIN wire :
          (/\ wire[i].k = "write"
           /\ PktCommand(wire[i].pkt) \in {CMDEraseFlash, CMDProgramFlash}) =>
            /\ i > 1
            /\ wire[i - 1].res = "ok"
            /\ wire[i - 1].k \in {"open", "resp"}
            /\ wire[i - 1].k = "open" => (stopFile /\ cmd.size = 0)
    /\ Succeeded =>
          /\ Len(FlashWrites) >= 2
          /\ Rank(FlashWrites[Len(FlashWrites)]) = 2
          /\ Rank(FlashWrites[Len(FlashWrites) - 1]) = 1
    /\ (cmd.pc \notin {"start", "returned"} /\ cmd.size # cfg.FlashSize) =>
          cmd.warned

\* a 5-byte image, one byte more than flash_size, went up in three chunks of
\* two, two and one bytes, then the flash was erased and programmed, and the
\* command returned success
C9_Witness ==
  /\ cmd.name = "flashProgramFull"
  /\ Succeeded
  /\ cmd.warned
  /\ cmd.size = 5
  /\ cfg.FlashSize = 4
  /\ cfg.ChunkSize = 2
  /\ Len(FlashWrites) = 5
  /\ Rank(FlashWrites[3]) = 0
  /\ Rank(FlashWrites[4]) = 1
  /\ Rank(FlashWrites[5]) = 2

\* C10: a single-sector run whose target has page size 0 or sector size 0, or
\* whose file is not sectorSize x 1024 bytes long, returns an error without
\* having opened the connection or put anything on the transport.
C10_SectorPreconditions ==
  (/\ cmd.name = "flashProgramSector"
   /\ \/ FlashPageSize(cfg) = 0
      \/ FlashSectorSize(cfg) = 0
      \/ cmd.size # FlashSectorSize(cfg) * 1024) =>
    /\ wire = <<>>
    /\ conn.opens = 0
    /\ op = IdleOp
    /\ xf = IdleXf
    /\ cmd.pc \in {"start", "returned"}
    /\ cmd.pc = "returned" => (cmd.err # "" /\ ~cmd.cancelled)

\* a run for an F256K with a 100-byte file was refused for the size of the
\* file, with nothing on the transport
C10_Witness ==
  /\ cmd.name = "flashProgramSector"
  /\ cmd.pc = "returned"
  /\ FlashPageSize(cfg) = 8
  /\ FlashSectorSize(cfg) = 8
  /\ cmd.size = 100
  /\ cmd.sector = 64
  /\ cmd.err = "file size does not match sector size"
  /\ wire = <<>>
  /\ conn.opens = 0

\* the pages whose programming has completed: the 2 s delays on the log
PagesProgrammed ==
  Len(SelectSeq(wire, LAMBDA e : e.k = "sleep" /\ e.d = DelayProgramSector))

\* C11 (as claimed): in a single-sector run every call of EraseSector and of
\* ProgramSector is for the page sectorIndex x pagesPerSector + k, k the
\* number of pages already programmed; a run that succeeds has programmed
\* pagesPerSector pages; the upload that follows a programmed page starts
\* at RAM offset 0.
C11_SectorPages ==
  (cmd.name = "flashProgramSector" /\ cmd.pc \notin {"start", "open"}) =>
    LET pagesPerSector == FlashSectorSize(cfg) \div FlashPageSize(cfg)
        startPage == cmd.sector * pagesPerSector
    IN  /\ (op.name \in {"EraseSector", "ProgramSector"} /\ op.pc = "start") =>
              op.sector = startPage + PagesProgrammed
        /\ Succeeded => PagesProgrammed = pagesPerSector
        /\ (/\ op.name = "WriteBlock"
            /\ op.pc = "start"
            /\ wire[Len(wire)].k = "sleep") => op.address = 0

(***************************************************************************)
(* Properties of the bulk command, under SpecBulk.                         *)
(***************************************************************************)
\* a request as <<command, address, data>>; the data are left out on a
\* 68040, where the alignment adapter writes whole aligned blocks
Req(command, address, data) ==
  <<command, address, IF cfg.CPU = "65c02" THEN data ELSE <<>>>>

\* the address the upload of a chunk is written at
UploadAddress(address) ==
  IF cfg.CPU = "65c02" THEN address ELSE address - (address % 4)

\* the requests wanted for one record <<sector, size>>: the file in chunks
\* from RAM address 0, the two erase-sector requests unless the flash was
\* erased first, and program-sector
WantedEntry(rec, erase) ==
  LET n == rec[2]
      chunks == (n + cfg.ChunkSize - 1) \div cfg.ChunkSize
      upload == [k \in 1 .. chunks |->
                   Req(CMDWriteMem, UploadAddress((k - 1) * cfg.ChunkSize),
                       SubSeq(FileData(n), ((k - 1) * cfg.ChunkSize) + 1,
                              IF k * cfg.ChunkSize > n THEN n
                              ELSE k * cfg.ChunkSize))]
      erases == IF erase THEN <<>>
                ELSE <<Req(CMDEraseSector, SectorAddress1(rec[1]), <<>>),
                       Req(CMDEraseSector, SectorAddress2(rec[1]), <<>>)>>
  IN  upload \o erases \o <<Req(CMDProgramSector, SectorAddress1(rec[1]), <<>>)>>

RECURSIVE WantedFrom(_, _, _)
\* the requests wanted for the records from the i-th on, up to the first
\* whose sector or file cannot be read
WantedFrom(recs, i, erase) ==
  IF i > Len(recs) THEN <<>>
  ELSE IF Len(recs[i]) < 2 THEN <<>>
  ELSE IF recs[i][1] = BadSector \/ recs[i][2] = BadFile THEN <<>>
  ELSE WantedEntry(recs[i], erase) \o WantedFrom(recs, i + 1, erase)

WantedBulk ==
  (IF cmd.eraseFirst THEN <<Req(CMDEraseFlash, 0, <<>>)>> ELSE <<>>)
    \o WantedFrom(cmd.records, 1, cmd.eraseFirst)

\* the requests sent, those of the alignment adapter's reads left out
SentBulk ==
  LET W == SelectSeq(FlashWrites, LAMBDA e : PktCommand(e.pkt) # CMDReadMem)
  IN  [i \in DOMAIN W |->
         Req(PktCommand(W[i].pkt), PktAddress(W[i].pkt), PktData(W[i].pkt))]

\* every record of the CSV file can be processed
AllGood ==
  \A i \in DOMAIN cmd.records :
     /\ Len(cmd.records[i]) = 2
     /\ cmd.records[i][1] # BadSector
     /\ cmd.records[i][2] # BadFile

\* C12: the requests of a bulk run are, at every moment, a prefix of: one
\* erase-flash if the erase option is set; then, record by record in the
\* order of the list, the whole file in chunks from RAM address 0, the
\* erase-sector requests of the record's sector if and only if the option is
\* not set, and program-sector of that sector.  Each request is sent only
\* after the one before it has completed (its response read and, for the
\* sector commands, its delay slept), and a run that succeeds has sent them
\* all.
C12_BulkOrder ==
  cmd.name = "flashBulkProgram" =>
    /\ Len(SentBulk) <= Len(WantedBulk)
    /\ SentBulk = SubSeq(WantedBulk, 1, Len(SentBulk))
    /\ \A i \in DOMAIN wire :
          (wire[i].k = "write" /\ PktCommand(wire[i].pkt) # CMDExitDebug) =>
            /\ i > 1
            /\ wire[i - 1].k \in {"open", "resp", "sleep"}
            /\ wire[i - 1].res = "ok"
            /\ wire[i - 1].k = "resp" =>
                  PktCommand(wire[i - 2].pkt)
                    \notin {CMDEraseSector, CMDProgramSector}
    /\ (op.name \in {"EraseSector", "ProgramSector"} /\ op.pc = "start") =>
          op.sector = cmd.records[cmd.idx][1]
    /\ (Succeeded /\ AllGood) => SentBulk = WantedBulk

\* with the erase option, two records <<1, 3 bytes>> and <<129, 0 bytes>>
\* were programmed: erase-flash, two chunks and program-sector, no chunk and
\* program-sector
C12_Witness ==
  /\ cmd.name = "flashBulkProgram"
  /\ Succeeded
  /\ cmd.eraseFirst
  /\ cfg.CPU = "65c02"
  /\ cmd.records = <<<<1, 3>>, <<129, 0>>>>
  /\ Len(SentBulk) = 5
  /\ SentBulk[1][1] = CMDEraseFlash
  /\ SentBulk[2][1] = CMDWriteMem
  /\ SentBulk[3] = <<CMDWriteMem, 2, <<FileData(3)[3]>>>>
  /\ SentBulk[4] = <<CMDProgramSector, 131072, <<>>>>
  /\ SentBulk[5][1] = CMDProgramSector

(***************************************************************************)
(* Properties of the three flash commands together, under SpecFlash.       *)
(***************************************************************************)
\* the commands of the steps of a flash workflow
StepCommands ==
  {CMDReadMem, CMDWriteMem, CMDEraseFlash, CMDProgramFlash, CMDEraseSector,
   CMDProgramSector}

\* C13: in each of the three flash commands, after a write-memory, erase or
\* program request that failed (not written whole, or its response not read
\* whole) no request is sent but the leaving of debug mode, and the command
\* returns an error.
C13_FailureStops ==
  \A i \in DOMAIN wire :
     (FailedAt(i) /\ PktCommand(wire[i].pkt) \in StepCommands) =>
       /\ \A j \in (i + 1) .. Len(wire) :
             wire[j].k = "write" => PktCommand(wire[j].pkt) = CMDExitDebug
       /\ \A j \in 1 .. (i - 1) : ~FailedAt(j)
       /\ cmd.pc = "returned" => cmd.err # ""
       /\ cmd.pc \in {"returned", "exiting"} \/ op.pc # "idle"

\* the second chunk of an image was not written whole: the command left
\* debug mode, closed the connection and returned the error of the upload
C13_Witness ==
  /\ cmd.name = "flashProgramFull"
  /\ cmd.pc = "returned"
  /\ cmd.err = "upload failed"
  /\ cmd.size = 5
  /\ Len(FlashWrites) = 2
  /\ FlashWrites[1].res = "ok"
  /\ FlashWrites[2].res = "short"
  /\ PktCommand(FlashWrites[2].pkt) = CMDWriteMem
  /\ wire[Len(wire)].k = "close"
  /\ PktCommand(wire[Len(wire) - 2].pkt) = CMDExitDebug

(***************************************************************************)
(* Properties of the loaders, under SpecLoader.  The blocks of a file are  *)
(* stated here by its format, from the first block to the terminator, to   *)
(* the end of the file or to the first record that does not decode.        *)
(***************************************************************************)
Item(kind, address, data) == [kind |-> kind, address |-> address, data |-> data]

\* the blocks of a file: items, and err when the file stops decoding
Blocks(items, err) == [items |-> items, err |-> err]

\* item, then the blocks rest
Cons(item, rest) == Blocks(<<item>> \o rest.items, rest.err)

RECURSIVE WDCBlocks(_, _)
\* the blocks of a WDC file from offset on
WDCBlocks(data, offset) ==
  IF offset >= Len(data) THEN Blocks(<<>>, FALSE)
  ELSE LET b == WDCReadBlock(data, offset)
       IN  IF b.err # "" THEN Blocks(<<>>, TRUE)
           ELSE IF b.address = 0 THEN Blocks(<<>>, FALSE)
           ELSE Cons(Item("data", b.address, b.block), WDCBlocks(data, b.offset))

RECURSIVE PGZBlocks(_, _, _)
\* the blocks of a PGZ file from offset on
PGZBlocks(data, addressSize, offset) ==
  IF offset >= Len(data) THEN Blocks(<<>>, FALSE)
  ELSE LET b == PGZReadBlock(data, addressSize, offset)
       IN  IF b.err # "" THEN Blocks(<<>>, TRUE)
           ELSE IF b.address = 0 THEN Blocks(<<>>, FALSE)
           ELSE Cons(Item(IF b.block = <<>> THEN "entry" ELSE "data",
                          b.address, b.block),
                     PGZBlocks(data, addressSize, b.offset))

\* the blocks of a PGX file: its data, and its load address as entry address
PGXBlocks(l) ==
  IF PGXCheck(l) # "" THEN Blocks(<<>>, TRUE)
  ELSE Blocks(<<Item("data", PGXAddress(l.file),
                     SubSeq(l.file, PGXOffData + 1, Len(l.file))),
                Item("entry", PGXAddress(l.file), <<>>)>>, FALSE)

RECURSIVE HexBlocks(_, _, _)
\* the blocks of an Intel HEX file from its i-th line on, under the base
\* address base
HexBlocks(lines, i, base) ==
  IF i > Len(lines) THEN Blocks(<<>>, FALSE)
  ELSE IF lines[i] = <<>> THEN HexBlocks(lines, i + 1, base)
  ELSE IF ~HexMatches(lines[i]) THEN Blocks(<<>>, TRUE)
  ELSE LET f == HexFields(lines[i])
       IN  CASE f.recordType = 0 ->
                  IF Len(f.dataHex) = 2 * f.byteCount
                  THEN Cons(Item("data", base + f.address,
                                 HexStringToBytes(f.dataHex)),
                            HexBlocks(lines, i + 1, base))
                  ELSE Blocks(<<>>, TRUE)
             [] f.recordType = 1 -> Blocks(<<>>, FALSE)
             [] f.recordType = 2 ->
                  HexBlocks(lines, i + 1, ParseUint(f.dataHex) * 16)
             [] f.recordType = 4 ->
                  HexBlocks(lines, i + 1, ParseUint(f.dataHex) * 65536)
             [] f.recordType \in {3, 5} -> HexBlocks(lines, i + 1, base)
             [] OTHER -> Blocks(<<>>, TRUE)

\* the number of hexadecimal digits of the address of an S1, S2, S3 record
SRecAddressDigits(type) == 2 * (type + 1)

RECURSIVE SRecBlocks(_, _)
\* the blocks of an SREC file from its i-th line on
SRecBlocks(lines, i) ==
  IF i > Len(lines) THEN Blocks(<<>>, FALSE)
  ELSE IF lines[i] = <<>> THEN SRecBlocks(lines, i + 1)
  ELSE IF ~SRecMatches(lines[i]) THEN Blocks(<<>>, TRUE)
  ELSE LET type == HexValue(lines[i][2])
           digits == SubSeq(lines[i], 3, 1 + HexRun(lines[i], 2))
           n == SRecAddressDigits(type)
       IN  CASE type \in {1, 2, 3} ->
                  IF Len(digits) >= n + 4 /\ (Len(digits) - n) % 2 = 0
                  THEN Cons(Item("data", ParseUint(SubSeq(digits, 3, 2 + n)),
                                 HexStringToBytes(SubSeq(digits, 3 + n,
                                                         Len(digits) - 2))),
                            SRecBlocks(lines, i + 1))
                  ELSE Blocks(<<>>, TRUE)
             [] type \in {0, 4, 5, 6, 7, 8, 9} -> SRecBlocks(lines, i + 1)
             [] OTHER -> Blocks(<<>>, TRUE)

\* the blocks of the file of the loader l
FileBlocks(l) ==
  IF ~l.opened \/ ~l.handler THEN Blocks(<<>>, TRUE)
  ELSE CASE l.name = "WDCLoader" -> WDCBlocks(l.file, 1)
         [] l.name = "PGZLoader" -> PGZBlocks(l.file, l.addressSize, 1)
         [] l.name = "PGXLoader" -> PGXBlocks(l)
         [] l.name = "IntelHexLoader" -> HexBlocks(l.file, 1, 0)
         [] l.name = "SRecLoader" -> SRecBlocks(l.file, 1)
         [] OTHER -> Blocks(<<>>, TRUE)

\* the 1 KB pieces of a block of data at address
Pieces(address, data) ==
  [i \in 1 .. ((Len(data) + 1023) \div 1024) |->
     Call("data", address + (1024 * (i - 1)),
          SubSeq(data, (1024 * (i - 1)) + 1,
                 IF 1024 * i < Len(data) THEN 1024 * i ELSE Len(data)))]

\* the write-sink calls for a block; split: a PGZ data block of more than
\* 1024 bytes is written in pieces
ItemCalls(l, item, split) ==
  IF item.kind = "entry" THEN SetupResetVectors(cfg.CPU, item.address).calls
  ELSE IF split /\ l.name = "PGZLoader" /\ Len(item.data) > 1024
  THEN Pieces(item.address, item.data)
  ELSE <<Call("data", item.address, item.data)>>

RECURSIVE WantedCalls(_, _, _)
\* the write-sink calls for the blocks bs, to the first entry address for
\* which the configured CPU has no reset vectors
WantedCalls(l, bs, split) ==
  IF bs.items = <<>> THEN [calls |-> <<>>, err |-> bs.err]
  ELSE IF Head(bs.items).kind = "entry"
          /\ SetupResetVectors(cfg.CPU, Head(bs.items).address).err # ""
  THEN [calls |-> <<>>, err |-> TRUE]
  ELSE LET rest == WantedCalls(l, Blocks(Tail(bs.items), bs.err), split)
       IN  [calls |-> ItemCalls(l, Head(bs.items), split) \o rest.calls,
            err |-> rest.err]

\* the calls the write-sink has received
CallsMade == [i \in DOMAIN ld.calls |-> ld.calls[i].call]

IsPrefix(s, t) == Len(s) <= Len(t) /\ s = SubSeq(t, 1, Len(s))

\* the calls made are the first of the calls for the blocks of the file, in
\* the order of the file; a call that failed is the last one, and Process has
\* returned an error; Process returns without error only with every call
\* made and a file that decodes to its end
LoaderOrder(split) ==
  LET w == WantedCalls(ld, FileBlocks(ld), split)
  IN  /\ IsPrefix(CallsMade, w.calls)
      /\ \A i \in DOMAIN ld.calls :
            ~ld.calls[i].ok => /\ i = Len(ld.calls)
                               /\ ld.pc = "returned"
                               /\ ld.err # ""
      /\ (ld.pc = "returned" /\ ld.err = "") => /\ CallsMade = w.calls
                                                /\ ~w.err
      /\ (ld.pc = "returned" /\ w.err /\ CallsMade = w.calls) => ld.err # ""

HexEndLines(lines) ==
  {i \in DOMAIN lines : HexMatches(lines[i]) /\ HexFields(lines[i]).recordType = 1}

RECURSIVE BlockTerminator(_, _, _)
\* the offset behind the first block with address 0 of a WDC or PGZ file with
\* fields of addressSize bytes, walking the blocks from offset on; 0 if the
\* file has none
BlockTerminator(data, addressSize, offset) ==
  IF offset + (2 * addressSize) > Len(data) THEN 0
  ELSE LET address == ReadLittleEndianInt(data, offset, addressSize)
           size == ReadLittleEndianInt(data, offset + addressSize, addressSize)
       IN  IF address = 0 THEN offset + (2 * addressSize)
           ELSE IF offset + (2 * addressSize) + size > Len(data) THEN 0
           ELSE BlockTerminator(data, addressSize,
                                offset + (2 * addressSize) + size)

\* where the terminating record of the file of l ends (a number of lines or
\* of bytes), 0 if it has none
TerminatorEnd(l) ==
  CASE l.name = "IntelHexLoader" ->
         IF HexEndLines(l.file) = {} THEN 0
         ELSE CHOOSE i \in HexEndLines(l.file) :
                 \A j \in HexEndLines(l.file) : i <= j
    [] l.name = "WDCLoader" -> BlockTerminator(l.file, 3, 1)
    [] l.name = "PGZLoader" /\ l.addressSize > 0 ->
         BlockTerminator(l.file, l.addressSize, 1)
    [] OTHER -> 0

\* the lines of an SREC file without its start records
WithoutStartLines(lines) ==
  SelectSeq(lines, LAMBDA line :
              ~(SRecMatches(line) /\ HexValue(line[2]) \in {7, 8, 9}))

\* the write-sink calls for the file of l cut behind its first n lines or bytes
CallsUpTo(l, n) ==
  WantedCalls(l, FileBlocks([l EXCEPT !.file = SubSeq(l.file, 1, n)]), TRUE)

\* C15: an Intel HEX record of type 0x01, and a WDC or PGZ block with address
\* 0, ends Process without error, and what follows it in the file is not read
\* and causes no call of the write-sink (the calls are those of the file cut
\* behind the terminator); the S7, S8 and S9 records of an SREC file cause no
\* call and do not end Process: the calls are those of the file without these
\* records, all of them when Process returns without error, and Process
\* returns an error only for a failed call, a read error or a record that
\* does not decode.
C15_Termination ==
  /\ (ld.opened /\ TerminatorEnd(ld) > 0) =>
        /\ ld.offset <= TerminatorEnd(ld)
        /\ ld.offset = TerminatorEnd(ld) => (ld.pc = "returned" /\ ld.err = "")
        /\ IsPrefix(CallsMade, CallsUpTo(ld, TerminatorEnd(ld)).calls)
        /\ (ld.pc = "returned" /\ ld.err = "") => ld.offset = TerminatorEnd(ld)
  /\ (ld.opened /\ ld.name = "SRecLoader") =>
        LET w == WantedCalls(ld, FileBlocks([ld EXCEPT !.file =
                                               WithoutStartLines(ld.file)]), TRUE)
        IN  /\ IsPrefix(CallsMade, w.calls)
            /\ (ld.pc = "returned" /\ ld.err = "") => CallsMade = w.calls
            /\ (ld.pc = "returned" /\ ld.err # "") =>
                  \/ ~ld.handler
                  \/ ld.err = "error reading file"
                  \/ \E i \in DOMAIN ld.calls : ~ld.calls[i].ok
                  \/ w.err

\* an Intel HEX file of a data record, an end-of-file record and another data
\* record was processed without error with the one call of the first record
C15_Witness ==
  /\ ld.name = "IntelHexLoader"
  /\ ld.pc = "returned"
  /\ ld.err = ""
  /\ Len(ld.file) = 3
  /\ TerminatorEnd(ld) = 2
  /\ Len(FileBlocks([ld EXCEPT !.file = Tail(Tail(ld.file))]).items) = 1
  /\ Len(ld.calls) = 1
  /\ ld.calls[1].ok

\* C16: for PGX and PGZ files no call of the write-sink with data of the file
\* follows a call made for the reset vectors.
C16_VectorsAfterData ==
  ld.name \in {"PGXLoader", "PGZLoader"} =>
    \A i \in DOMAIN ld.calls : \A j \in DOMAIN ld.calls :
       (i < j /\ ld.calls[i].call.kind = "vector") => ld.calls[j].call.kind # "data"

\* the CPU id of the PGX format for the family of the configured CPU, 0 for a
\* CPU of no family
FamilyId(cpu) ==
  CASE cpu = "65816" -> 1
    [] cpu \in {"65c02", "65C02"} -> 3
    [] cpu \in {"m68k", "68000", "68040", "68060"} -> 2
    [] OTHER -> 0

\* file is not a PGX file for the configured CPU
PGXInvalid(file, cpu) ==
  \/ Len(file) < 8
  \/ SubSeq(file, 1, 3) # <<80, 71, 88>>
  \/ file[4] \div 16 # 0
  \/ (file[4] % 16) \notin {1, 2, 3}
  \/ (file[4] % 16) # FamilyId(cpu)

\* C17: Process of the PGX loader fails without a call of the write-sink when
\* the file has less than 8 bytes, does not begin with "PGX", has a version
\* nibble other than 0, a CPU id other than 1, 2, 3, or a CPU id that is not
\* the one of the family of the configured CPU (1: 65816, 3: 65C02, 2: 680x0).
C17_PGXRejects ==
  (ld.name = "PGXLoader" /\ PGXInvalid(ld.file, cfg.CPU)) =>
     /\ ld.calls = <<>>
     /\ ld.pc \in {"new", "openfailed", "process", "returned"}
     /\ ld.pc = "returned" => ld.err # ""

\* a well-formed PGX file for the 680x0 was refused under a configured 65816
C17_Witness ==
  /\ ld.name = "PGXLoader"
  /\ ld.opened
  /\ ld.handler
  /\ ld.pc = "returned"
  /\ ld.err = "PGX is built for 680x0"
  /\ ld.calls = <<>>
  /\ Len(ld.file) > 8
  /\ SubSeq(ld.file, 1, 4) = <<80, 71, 88, 2>>
  /\ cfg.CPU = "65816"

\* the 32-bit little-endian load address of a PGX file
LoadAddress(file) ==
  file[5] + (256 * file[6]) + (65536 * file[7]) + (16777216 * file[8])

\* the reset-vector writes for the CPU id of a PGX file: the strategy of the
\* 65816 (1) or of the 65C02 (3), and for the 680x0 (2) the entry address as
\* 4 bytes big-endian at address 4
StrategyCalls(id, entry) ==
  CASE id = 1 -> Setup65816Vectors(entry)
    [] id = 3 -> Setup65C02Vectors(entry)
    [] id = 2 -> <<Call("vector", 4,
                        <<(entry \div 16777216) % 256, (entry \div 65536) % 256,
                          (entry \div 256) % 256, entry % 256>>)>>

\* the calls of the write-sink for a valid PGX file
PGXCalls(file) ==
  <<Call("data", LoadAddress(file), SubSeq(file, 9, Len(file)))>>
    \o StrategyCalls(file[4] % 16, LoadAddress(file))

\* C18: for a valid PGX file Process makes one data call with all bytes after
\* the 8-byte header at the 32-bit little-endian load address, and then the
\* reset-vector calls of the strategy of the CPU id in the file with the load
\* address as entry address (680x0: one call with the entry address as 4
\* bytes big-endian at address 4); it makes no other call, and returns
\* without error exactly when all these calls were made and succeeded.
C18_PGXCalls ==
  (ld.name = "PGXLoader" /\ ld.opened /\ ld.handler
     /\ ~PGXInvalid(ld.file, cfg.CPU)) =>
     /\ IsPrefix(CallsMade, PGXCalls(ld.file))
     /\ (ld.pc = "returned" /\ ld.err = "") =>
           /\ CallsMade = PGXCalls(ld.file)
           /\ \A i \in DOMAIN ld.calls : ld.calls[i].ok
     /\ (ld.pc = "returned" /\ ld.err # "") =>
           \E i \in DOMAIN ld.calls : ~ld.calls[i].ok

\* a 680x0 file with two bytes of data for 0x01020304 was processed: the data
\* call, then 01 02 03 04 written at address 4
C18_Witness ==
  /\ ld.name = "PGXLoader"
  /\ ld.pc = "returned"
  /\ ld.err = ""
  /\ ld.file = <<80, 71, 88, 2, 4, 3, 2, 1, 7, 8>>
  /\ cfg.CPU = "68040"
  /\ CallsMade = <<Call("data", 16909060, <<7, 8>>),
                   Call("vector", 4, <<1, 2, 3, 4>>)>>

\* a memory after the write of data at address: the bytes written, over what
\* it held
MemoryWrite(memory, address, data) ==
  [a \in address .. (address + Len(data) - 1) |-> data[(a - address) + 1]] @@ memory

RECURSIVE MemoryAfter(_, _)
\* a memory after the calls cs of the write-sink, in order
MemoryAfter(memory, cs) ==
  IF cs = <<>> THEN memory
  ELSE MemoryAfter(MemoryWrite(memory, Head(cs).address, Head(cs).data), Tail(cs))

\* the number of calls for the blocks of items before the i-th
CallsBefore(items, i) ==
  Len(WantedCalls(ld, Blocks(SubSeq(items, 1, i - 1), FALSE), TRUE).calls)

\* the number of calls for the blocks of items after the i-th
CallsBehind(items, i) ==
  Len(WantedCalls(ld, Blocks(SubSeq(items, i + 1, Len(items)), FALSE), TRUE).calls)

\* the c calls made after those for the blocks of items before the i-th
CallsFor(items, i, c) ==
  SubSeq(CallsMade, CallsBefore(items, i) + 1, CallsBefore(items, i) + c)

\* C19: when a PGZ file was processed, for each of its data blocks of n > 1024
\* bytes at address a exactly ceil(n/1024) calls of the write-sink were made,
\* the i-th (from 0) at a + 1024 i with at most 1024 bytes, their data in
\* order being the block; these calls leave a memory as one write of the
\* whole block at a does.
C19_LargeBlocks ==
  (ld.name = "PGZLoader" /\ ld.pc = "returned" /\ ld.err = "") =>
     LET items == FileBlocks(ld).items
     IN  \A i \in DOMAIN items :
            (items[i].kind = "data" /\ Len(items[i].data) > 1024) =>
               LET n == Len(items[i].data)
                   c == (n + 1023) \div 1024
                   made == CallsFor(items, i, c)
               IN  /\ Len(made) = c
                   /\ \A j \in 1 .. c :
                         /\ made[j].kind = "data"
                         /\ made[j].address = items[i].address + (1024 * (j - 1))
                         /\ Len(made[j].data) <= 1024
                   /\ Flatten([j \in 1 .. c |-> made[j].data]) = items[i].data
                   /\ Len(CallsMade) = CallsBefore(items, i) + c + CallsBehind(items, i)
                   /\ MemoryAfter(<<>>, made)
                        = MemoryWrite(<<>>, items[i].address, items[i].data)

\* a PGZ file with a block of 2049 bytes at 0x200 was processed: calls of
\* 1024, 1024 and 1 bytes at 0x200, 0x600 and 0xA00
C19_Witness ==
  /\ ld.name = "PGZLoader"
  /\ ld.pc = "returned"
  /\ ld.err = ""
  /\ Len(ld.calls) = 3
  /\ \A i \in 1 .. 3 : ld.calls[i].ok
  /\ CallsMade[1].address = 512 /\ Len(CallsMade[1].data) = 1024
  /\ CallsMade[2].address = 1536 /\ Len(CallsMade[2].data) = 1024
  /\ CallsMade[3].address = 2560 /\ Len(CallsMade[3].data) = 1

\* the size in bytes of the fields of a PGZ file with header byte h
FieldSize(h) == IF h = 90 THEN 3 ELSE 4

\* the little-endian field of w bytes behind the first offset bytes of data
Field(data, offset, w) ==
  data[offset + 1] + (256 * data[offset + 2]) + (65536 * data[offset + 3])
    + (IF w = 4 THEN 16777216 * data[offset + 4] ELSE 0)

RECURSIVE PGZCalls(_, _, _)
\* the calls of the write-sink for the blocks [addr][size][data] of a PGZ file
\* with fields of w bytes, from offset on: none from a block with addr = 0
\* on; those of the reset vectors for a block with size = 0; the writes of
\* the size bytes of data at addr otherwise.  A block that is cut short, or
\* an entry address under a CPU without reset vectors, ends them.
PGZCalls(data, w, offset) ==
  IF offset + (2 * w) > Len(data) THEN <<>>
  ELSE LET addr == Field(data, offset, w)
           size == Field(data, offset + w, w)
           next == offset + (2 * w)
       IN  IF addr = 0 THEN <<>>
           ELSE IF size = 0
           THEN IF SetupResetVectors(cfg.CPU, addr).err # "" THEN <<>>
                ELSE SetupResetVectors(cfg.CPU, addr).calls
                       \o PGZCalls(data, w, next)
           ELSE IF next + size > Len(data) THEN <<>>
           ELSE (IF size > 1024
                 THEN Pieces(addr, SubSeq(data, next + 1, next + size))
                 ELSE <<Call("data", addr, SubSeq(data, next + 1, next + size))>>)
                  \o PGZCalls(data, w, next + size)

\* C20: Open of the PGZ loader succeeds only for a file with header byte 0x5A,
\* whose address and size fields are then read as 3 bytes little-endian, or
\* 0x7A, 4 bytes little-endian; each block is a terminator (addr = 0), an
\* entry address (size = 0, addr > 0: the reset vectors are configured for
\* addr, no data is written) or data (size > 0, addr > 0: size bytes are
\* written from addr on), and the calls of the write-sink are those of the
\* blocks in order.
C20_PGZDecoding ==
  ld.name = "PGZLoader" =>
    /\ ld.opened => /\ Len(ld.file) >= 1
                    /\ ld.file[1] \in {90, 122}
                    /\ ld.addressSize = FieldSize(ld.file[1])
    /\ (ld.pc = "openfailed" /\ Len(ld.file) >= 1 /\ ld.file[1] \in {90, 122})
          => ld.err = "failed to read file"
    /\ (ld.opened /\ ld.handler) =>
          /\ IsPrefix(CallsMade, PGZCalls(ld.file, FieldSize(ld.file[1]), 1))
          /\ (ld.pc = "returned" /\ ld.err = "")
                => CallsMade = PGZCalls(ld.file, FieldSize(ld.file[1]), 1)

\* a file with header 0x7A, a byte of data for 0x01000010 and the entry
\* address 0x2000 was processed for a 680x0: the data call, then the vector
C20_Witness ==
  /\ ld.name = "PGZLoader"
  /\ ld.pc = "returned"
  /\ ld.err = ""
  /\ ld.file = <<122, 16, 0, 0, 1, 1, 0, 0, 0, 4, 0, 32, 0, 0, 0, 0, 0, 0>>
  /\ cfg.CPU = "68040"
  /\ CallsMade = <<Call("data", 16777232, <<4>>),
                   Call("vector", 4, <<0, 0, 32, 0>>)>>

\* the lines of an Intel HEX file that are data records (type 0x00), in the
\* order of the file
HexDataRecords(lines) ==
  SelectSeq([i \in DOMAIN lines |-> i],
            LAMBDA i : HexMatches(lines[i]) /\ HexFields(lines[i]).recordType = 0)

\* the lines before the i-th that are extended-address records (0x02, 0x04)
ExtendedBefore(lines, i) ==
  {j \in 1 .. (i - 1) : HexMatches(lines[j]) /\ HexFields(lines[j]).recordType \in {2, 4}}

\* the value of the data field of an extended-address record, as a number
ExtendedValue(line) == ParseUint(HexFields(line).dataHex)

\* the base address for the i-th line: 0, or value << 16 (0x04), value << 4
\* (0x02) of the last extended-address record before it
BaseFor(lines, i) ==
  IF ExtendedBefore(lines, i) = {} THEN 0
  ELSE LET j == CHOOSE j \in ExtendedBefore(lines, i) :
                   \A k \in ExtendedBefore(lines, i) : k <= j
       IN  IF HexFields(lines[j]).recordType = 4
           THEN ExtendedValue(lines[j]) * 65536
           ELSE ExtendedValue(lines[j]) * 16

\* C21: the k-th call of the write-sink made for an Intel HEX file has the
\* bytes of the k-th data record (type 0x00) of the file and the address base
\* + the 16-bit address of that record, where base is 0 before the first
\* extended-address record and then value << 16 (type 0x04) or value << 4
\* (type 0x02) of the last extended-address record before the data record.
C21_HexAddressing ==
  (ld.name = "IntelHexLoader" /\ ld.opened) =>
     /\ Len(CallsMade) <= Len(HexDataRecords(ld.file))
     /\ \A k \in DOMAIN CallsMade :
          LET i == HexDataRecords(ld.file)[k]
          IN  /\ CallsMade[k].address
                   = BaseFor(ld.file, i) + ParseUint(SubSeq(ld.file[i], 4, 7))
              /\ CallsMade[k].data = HexStringToBytes(HexFields(ld.file[i]).dataHex)

\* after the records 0x04 with 0x0001 and 0x02 with 0x0010 the data record
\* for 0x0020 was written at 0x0120, the base of the later record
C21_Witness ==
  /\ ld.name = "IntelHexLoader"
  /\ ld.pc = "returned"
  /\ ld.err = ""
  /\ Len(ld.file) = 3
  /\ HexMatches(ld.file[1]) /\ HexFields(ld.file[1]).recordType = 4
  /\ HexMatches(ld.file[2]) /\ HexFields(ld.file[2]).recordType = 2
  /\ CallsMade = <<Call("data", 288, <<195>>)>>

(***************************************************************************)
(* Properties of the reset vectors, under SpecVectors.                     *)
(***************************************************************************)
\* the low and the high byte of the 16-bit entry address
Entry16(entry) == <<entry % 256, (entry \div 256) % 256>>

\* the writes for a 65816
Writes65816(entry) ==
  IF (entry \div 65536) % 256 # 0
  THEN <<Call("vector", 65408,
              <<24, 251, 92, entry % 256, (entry \div 256) % 256,
                (entry \div 65536) % 256>>),
         Call("vector", 65532, <<128, 255>>)>>
  ELSE <<Call("vector", 65532, Entry16(entry))>>

\* the writes for a 65C02; 67 82 79 83 83 68 69 86 is "CROSSDEV"
Writes65C02(entry) ==
  <<Call("vector", 65532, Entry16(entry)),
    Call("vector", 128, <<67, 82, 79, 83, 83, 68, 69, 86>>),
    Call("vector", 136, Entry16(entry)),
    Call("vector", 250, <<0, 0>>)>>

\* the calls made are the first of ws, a call that failed is the last one and
\* an error is returned; without error all of ws were made
WritesInOrder(ws) ==
  /\ IsPrefix(CallsMade, ws)
  /\ \A i \in DOMAIN ld.calls :
        ~ld.calls[i].ok => (i = Len(ld.calls) /\ ld.pc = "returned" /\ ld.err # "")
  /\ (ld.pc = "returned" /\ ld.err = "") => CallsMade = ws

\* C22: for a 65816 and an entry address with (entry & 0xFF0000) # 0 the
\* writes are 18 FB 5C and the 24-bit little-endian entry address at 0xFF80,
\* then 80 FF at 0xFFFC; for a 65816 and an entry address in bank 0 the one
\* write is the 16-bit little-endian entry address at 0xFFFC; for a 65C02
\* they are the 16-bit little-endian entry address at 0xFFFC, "CROSSDEV" at
\* 0x0080, the 16-bit little-endian entry address at 0x0088 and two zero
\* bytes at 0x00FA.  After a write that fails none of the later ones is made.
C22_Vectors65xx ==
  /\ cfg.CPU = "65816" => WritesInOrder(Writes65816(ld.startAddress))
  /\ cfg.CPU \in {"65c02", "65C02"} => WritesInOrder(Writes65C02(ld.startAddress))

\* for a 65816 and the entry address 0x018000 the stub 18 FB 5C 00 80 01 was
\* written at 0xFF80 and the write of 80 FF at 0xFFFC failed
C22_Witness ==
  /\ cfg.CPU = "65816"
  /\ ld.startAddress = 98304
  /\ ld.pc = "returned"
  /\ ld.err # ""
  /\ Len(ld.calls) = 2
  /\ ld.calls[1].ok /\ ~ld.calls[2].ok
  /\ CallsMade = <<Call("vector", 65408, <<24, 251, 92, 0, 128, 1>>),
                   Call("vector", 65532, <<128, 255>>)>>

\* C23: SetupResetVectors called with a CPU that is none of 65816, 65C02,
\* 65c02 and the 680x0 family (m68k, 68000, 68040, 68060) returns an error
\* and makes no call of the write-sink.
C23_UnsupportedCPU ==
  (cfg.CPU \notin {"65816", "65C02", "65c02", "m68k", "68000", "68040", "68060"}) =>
     /\ ld.calls = <<>>
     /\ ld.pc \in {"process", "returned"}
     /\ ld.pc = "returned" => ld.err = "unsupported CPU type"

\* SetupResetVectors has returned its error for the CPU "6502"
C23_Witness ==
  /\ cfg.CPU = "6502"
  /\ ld.pc = "returned"
  /\ ld.err = "unsupported CPU type"
  /\ ld.calls = <<>>


(***************************************************************************)
(* Claims C24..C26: the session of a command.                              *)
(***************************************************************************)
\* the commands that work on the memory, the flash, the revision or the
\* boot source of the target
SessionCommands ==
  ReadCommands \cup BinaryCommands
    \cup {"revision", "setBootSource", "uploadFile", "copyFile",
          "flashProgramFull", "flashBulkProgram"}

\* the request at i of the log was written whole and answered whole
AnsweredAt(i) ==
  /\ i \in DOMAIN wire
  /\ wire[i].k = "write"
  /\ wire[i].res = "ok"
  /\ (i + 1) \in DOMAIN wire
  /\ wire[i + 1].k = "resp"
  /\ wire[i + 1].res = "ok"

\* the positions of the log at which command was sent
Sent(command) ==
  {i \in DOMAIN wire : wire[i].k = "write" /\ PktCommand(wire[i].pkt) = command}

\* C24: a command on the memory, the flash, the revision or the boot source,
\* or an upload, run while there is no stop indicator, opens the transport
\* first and once, sends enter-debug as its first request, sends any other
\* request only after enter-debug was answered, sends exit-debug at most
\* once and nothing after it, and closes the transport last.  Once it has
\* returned with enter-debug answered it has sent exit-debug exactly once,
\* whether or not a request in between failed; with enter-debug failed it has
\* sent nothing else, exit-debug included, and has closed the transport.
C24_Session ==
  (cmd.name \in SessionCommands /\ ~stopFile /\ wire # <<>>) =>
    /\ wire[1].k = "open"
    /\ \A i \in 2 .. Len(wire) : wire[i].k # "open"
    /\ wire[1].res # "ok" => Len(wire) = 1
    /\ conn.open <=> (wire[1].res = "ok" /\ wire[Len(wire)].k # "close")
    /\ \A i \in DOMAIN wire : wire[i].k = "close" => i = Len(wire)
    /\ Len(wire) >= 2 =>
         \/ wire[2].k = "write" /\ PktCommand(wire[2].pkt) = CMDEnterDebug
         \/ wire[2].k = "close" /\ cmd.err = "failed to enter debug mode"
    /\ \A i \in 3 .. Len(wire) :
         wire[i].k = "write" =>
           /\ PktCommand(wire[i].pkt) # CMDEnterDebug
           /\ AnsweredAt(2)
           /\ PktCommand(wire[i].pkt) = CMDExitDebug =>
                \A j \in (i + 1) .. Len(wire) : wire[j].k # "write"
    /\ (cmd.pc = "returned" /\ wire[1].res = "ok") =>
         /\ wire[Len(wire)].k = "close"
         /\ Sent(CMDEnterDebug) = {2}
         /\ conn.opens = 1 /\ conn.closes = 1
         /\ AnsweredAt(2) => Cardinality(Sent(CMDExitDebug)) = 1
         /\ ~AnsweredAt(2) => cmd.err = "failed to enter debug mode"

\* an upload whose second write-memory request was not answered: it has
\* left debug mode after it, closed the transport and returned the error
C24_Witness ==
  /\ cmd.name = "uploadFile"
  /\ ~stopFile
  /\ cmd.pc = "returned"
  /\ cmd.err = "upload failed"
  /\ \E i \in Sent(CMDWriteMem) :
        /\ AnsweredAt(i)
        /\ \E j \in Sent(CMDWriteMem) :
              /\ j > i
              /\ FailedAt(j)
              /\ \E k \in Sent(CMDExitDebug) : k > j /\ wire[Len(wire)].k = "close"

\* C25: in the log of a stop command or of a start command no enter-debug
\* request comes before the stop-CPU or start-CPU request.
C25_NoEnterDebug ==
  cmd.name \in {"stopCPU", "startCPU"} =>
    \A i \in Sent(CMDStopCPU) \cup Sent(CMDStartCPU) :
       \A j \in Sent(CMDEnterDebug) : ~(j < i)

\* C26: while the stop indicator is there, the dump, lookup, deref,
\* revision, upload, flash, boot and copy commands send neither enter-debug
\* nor exit-debug: their first request follows the opening of the
\* transport, and one that returns no error had every request answered.
\* The one command that sends exit-debug while the indicator is there is start, and
\* the indicator is there only after a stop command has set it.
C26_StoppedSession ==
  stopFile =>
    /\ Sent(CMDExitDebug) # {} => cmd.name = "startCPU"
    /\ cmd.name \in SessionCommands =>
         /\ Sent(CMDEnterDebug) = {}
         /\ Sent(CMDExitDebug) = {}
         /\ (cmd.pc = "returned" /\ wire # <<>> /\ wire[1].res = "ok") =>
              /\ wire[Len(wire)].k = "close"
              /\ cmd.err = "" => \A i \in DOMAIN wire :
                                    wire[i].k = "write" => AnsweredAt(i)

\* a dump that has read memory and returned while the indicator was there
C26_Witness ==
  /\ stopFile
  /\ cmd.name = "dump"
  /\ cmd.pc = "returned"
  /\ cmd.err = ""
  /\ Len(wire) = 4
  /\ AnsweredAt(2)
  /\ PktCommand(wire[2].pkt) = CMDReadMem


(***************************************************************************)
(* Claim C27: the status bytes of the session.                             *)
(***************************************************************************)
\* the two status bytes transfer x has read: the read that follows the
\* response sync byte, if it was made and did not fail
StatusRead(x) ==
  LET r == Reads(x)
      i == Discarded(x) + 2
  IN  IF i <= Len(r) /\ r[i].res = "ok" /\ r[i - 1].bytes = <<ResponseSyncByte>>
      THEN r[i].bytes ELSE <<>>

\* C27: from the moment a transfer has written its request, the two status
\* bytes of the session are those this transfer has read, and both 0 as long
\* as, or if, it has read none: a transfer that succeeds leaves the status
\* bytes of its response, a transfer that fails before it read them leaves
\* 0 and 0, whatever an earlier transfer of the session had left.  The
\* revision query returns the second status byte of its own response.
C27_StatusBytes ==
  /\ xf.ios # <<>> =>
       /\ StatusRead(xf) # <<>> =>
            dp = [status0 |-> StatusRead(xf)[1], status1 |-> StatusRead(xf)[2]]
       /\ StatusRead(xf) = <<>> => dp = [status0 |-> 0, status1 |-> 0]
       /\ (xf.pc \in {"ret", "idle"} /\ xf.err = "") => StatusRead(xf) # <<>>
  /\ (op.name = "GetRevision" /\ op.pc = "done") =>
       op.result = (IF op.err = "" THEN <<StatusRead(xf)[2]>> ELSE <<>>)

\* the revision query of a run has failed before it read its status bytes,
\* after the enter-debug request of the same session had been answered: the
\* status bytes are 0 and 0
C27_Witness ==
  /\ cmd.name = "revision"
  /\ op.name = "GetRevision"
  /\ op.pc = "done"
  /\ op.err # ""
  /\ AnsweredAt(2)
  /\ PktCommand(wire[2].pkt) = CMDEnterDebug
  /\ StatusRead(xf) = <<>>
  /\ dp = [status0 |-> 0, status1 |-> 0]

(***************************************************************************)
(* The relay (C28, C29, C30)                                               *)
(***************************************************************************)
\* the bytes from the first response sync byte on: the loop of
\* DebugPort.transfer that reads one byte at a time until it is 0xAA
RECURSIVE FromSync(_)
FromSync(bytes) ==
  IF bytes = <<>> THEN <<>>
  ELSE IF Head(bytes) = ResponseSyncByte THEN bytes
  ELSE FromSync(Tail(bytes))

\* what DebugPort.transfer makes of the bytes that come back for a request
\* with readLength bytes to read: the read that fails if there are too few,
\* or the status bytes and the data
Observed(bytes, readLength) ==
  LET s == FromSync(bytes)
  IN  IF s = <<>> THEN [err |-> "failed to read sync byte"]
      ELSE IF Len(s) < 3 THEN [err |-> "failed to read status bytes"]
      ELSE IF Len(s) < 3 + readLength
           THEN [err |-> "failed to read data", status0 |-> s[2],
                 status1 |-> s[3]]
      ELSE IF Len(s) < 3 + readLength + 1
           THEN [err |-> "failed to read LRC", status0 |-> s[2],
                 status1 |-> s[3]]
      ELSE [err |-> "", status0 |-> s[2], status1 |-> s[3],
            data |-> SubSeq(s, 4, 3 + readLength)]

\* the readLength of the transfer that built the request
ReadLengthOf(request) ==
  IF PktCommand(request) = CMDReadMem THEN PktLength(request) ELSE 0

\* the requests, one after the other
RECURSIVE Joined(_)
Joined(requests) ==
  IF requests = <<>> THEN <<>> ELSE Head(requests) \o Joined(Tail(requests))

\* C28: with one client connected, what the relay has written to the serial
\* device is what the client sent, byte for byte and in order; every
\* response it has written to the client is the response the device
\* produced for that request, byte for byte, so the session reads from it
\* the status bytes and data (or the error) it would read from the device.
C28_ByteForByte ==
  \A c \in Clients :
    (\A d \in Clients \ {c} : br.h[d].pc = "idle") =>
      LET h == br.h[c]
          written == Joined(h.sent)
      IN  /\ Len(written) <= Len(h.stream)
          /\ written = SubSeq(h.stream, 1, Len(written))
          /\ \A k \in 1 .. Len(h.out) :
               /\ h.out[k] = h.produced[k]
               /\ Observed(h.out[k], ReadLengthOf(h.sent[k]))
                    = Observed(h.produced[k], ReadLengthOf(h.sent[k]))


\* the length of the request whose header is given: header, the data of a
\* write command, checksum
RequestLength(header) ==
  7 + (IF HeaderCommand(header) = cmdWriteMem THEN HeaderDataLength(header)
       ELSE 0) + 1

\* the bytes the handler has read from its client
Taken(h) == SubSeq(h.stream, 1, Len(h.stream) - Len(h.inbox))

\* C29: a handler has the serial device open only between its serial.Open
\* and the end of its reads from it: then it has read the whole of its
\* current request (header, data, checksum) from the client and this
\* connection was opened for this request; the device is closed while the
\* handler reads a request, while it writes the response to the client and
\* once it has returned, whatever failed; every request read whole but the
\* one whose open failed has had its own open, and every open its close.
C29_FreshSerial ==
  \A c \in Clients :
    LET h == br.h[c]
    IN  /\ h.open =>
             /\ h.pc \in {"serialWrite", "sync", "status", "respData",
                          "respLrc", "close"}
             /\ h.request = h.header \o h.data \o h.lrcByte
             /\ Len(h.request) = RequestLength(h.header)
             /\ h.request = SubSeq(Taken(h), Len(Taken(h)) - Len(h.request) + 1,
                                   Len(Taken(h)))
             /\ h.opens = h.requests
             /\ h.closes = h.opens - 1
        /\ ~h.open => h.closes = h.opens
        /\ h.pc \in {"idle", "header", "data", "lrc", "serialOpen", "respond",
                     "returned"} => ~h.open
        /\ h.pc = "serialOpen" => h.opens = h.requests - 1
        /\ h.pc = "respond" => h.opens = h.requests
        /\ h.pc \in {"header", "data", "lrc"} =>
             h.opens = h.requests
        /\ h.pc = "returned" =>
             h.opens = IF h.printed = "Error opening serial port"
                       THEN h.requests - 1 ELSE h.requests

\* C29 witness: a handler has returned on an error of the serial device
\* during its second transaction (a failed or short write, a failed read of
\* the sync byte, the status bytes, the data or the checksum): it opened the
\* device twice and closed it twice, and wrote one response.
C29_Witness ==
  \E c \in Clients :
    LET h == br.h[c]
    IN  /\ h.pc = "returned"
        /\ h.printed \in {"Error writing to serial port", "Serial write error",
                          "Error reading response sync",
                          "Error reading status bytes",
                          "Error reading response data",
                          "Error reading response LRC"}
        /\ h.requests = 2
        /\ h.opens = 2
        /\ h.closes = 2
        /\ ~h.open
        /\ Len(h.out) = 1


\* C30: within one client connection the transactions follow each other:
\* a handler has at most one request without its response; while it reads
\* a request from the client, and when it has returned on an error of that
\* read, every request it has read whole has had its response written to
\* the client; it writes to the serial device only the request it has read
\* last.
C30_Sequential ==
  \A c \in Clients :
    LET h == br.h[c]
    IN  /\ h.requests \in {Len(h.out), Len(h.out) + 1}
        /\ h.pc \in {"idle", "header", "data", "lrc"} => Len(h.out) = h.requests
        /\ h.pc \in {"serialOpen", "serialWrite", "sync", "status", "respData",
                     "respLrc", "close", "respond"} =>
             h.requests = Len(h.out) + 1
        /\ h.pc = "returned" =>
             (Len(h.out) = h.requests
                <=> h.printed \in {"Error reading header", "Error reading data",
                                   "Error reading LRC"})
        /\ Len(h.sent) \in {Len(h.out), Len(h.out) + 1}
        /\ Len(h.sent) <= h.requests
        /\ Len(h.produced) = Len(h.sent)

\* C30 witness: both handlers have the serial device open at the same time
\* and have written their requests to it, c first; the device has answered
\* c with status bytes 0, 1 and d with status bytes 0, 0, and d has read the
\* sync byte and the status bytes 0, 1 of the answer to c.
C30_Witness ==
  \E c \in Clients, d \in Clients :
    /\ c # d
    /\ br.h[c].open
    /\ br.h[d].open
    /\ br.h[c].pc = "sync"
    /\ br.h[d].pc \in {"respData", "respLrc"}
    /\ Len(br.h[c].sent) = 1
    /\ Len(br.h[d].sent) = 1
    /\ br.h[c].produced[1] = DeviceResponse(br.h[c].sent[1], <<>>, <<0, 1>>)
    /\ br.h[d].produced[1] = DeviceResponse(br.h[d].sent[1], <<>>, <<0, 0>>)
    /\ br.h[d].responseSyncByte = <<ResponseSyncByte>>
    /\ br.h[d].responseStatusBytes = <<0, 1>>


(***************************************************************************)
(* The chunked upload (C31)                                                *)
(***************************************************************************)
\* the write-memory requests a flash command has put on the transport
UploadWrites ==
  SelectSeq(FlashWrites, LAMBDA e : PktCommand(e.pkt) = CMDWriteMem)

\* C31: while uploadChunked waits for a write-block, that write-block is the
\* k-th (from 0) with k = offset / chunk_size: it targets
\* startAddress + k x chunk_size and carries the bytes of the image from
\* offset on, chunk_size of them if that many are left and all that are left
\* otherwise, never none; the loop is left only with offset at the end of
\* the image.  On a CPU without the 32-bit adapter, where a write-block is
\* one write-memory request, the data of the requests sent, in order, is a
\* prefix of the image, the whole image once the loop is left, and the k-th
\* request has the address of the k-th write-block.
C31_Chunks ==
  cmd.name = "flashProgramFull" =>
    LET c == cfg.ChunkSize
        k == cmd.offset \div c
        left == cmd.size - cmd.offset
    IN  /\ cmd.pc = "uploading" =>
             /\ cmd.offset = k * c
             /\ left >= 1
             /\ op.name = "WriteBlock"
             /\ op.address = U32(cmd.addr + (k * c))
             /\ Len(op.data) = (IF left >= c THEN c ELSE left)
             /\ op.data = SubSeq(FileData(cmd.size), cmd.offset + 1,
                                 cmd.offset + Len(op.data))
             /\ cmd.toWrite = Len(op.data)
        /\ cmd.pc \in {"erasing", "programming"} => cmd.offset = cmd.size
        /\ cfg.CPU = "65c02" =>
             /\ IsPrefix(UploadedFrom(1), FileData(cmd.size))
             /\ cmd.pc \in {"erasing", "programming"} =>
                  UploadedFrom(1) = FileData(cmd.size)
             /\ \A j \in DOMAIN UploadWrites :
                  /\ PktAddress(UploadWrites[j].pkt)
                       = (cmd.addr + ((j - 1) * c)) % 16777216
                  /\ Len(PktData(UploadWrites[j].pkt)) \in 1 .. c
                  /\ j < Len(UploadWrites) =>
                       Len(PktData(UploadWrites[j].pkt)) = c

\* C31 witness: an image of five bytes has gone up in chunks of two: three
\* write-memory requests of two, two and one bytes, and the loop is left.
C31_Witness ==
  /\ cmd.name = "flashProgramFull"
  /\ cmd.pc = "erasing"
  /\ cfg.CPU = "65c02"
  /\ cfg.ChunkSize = 2
  /\ cmd.size = 5
  /\ Len(UploadWrites) = 3
  /\ Len(PktData(UploadWrites[3].pkt)) = 1
  /\ UploadedFrom(1) = FileData(5)


(***************************************************************************)
(* Retry (C32)                                                             *)
(***************************************************************************)
\* the transport calls of the current transfer that returned an error
FailedCalls == {i \in DOMAIN xf.ios : xf.ios[i].res # "ok"}

\* C32: a transfer is retried after a transport error: one that has returned
\* an error has had more than one failed transport call, and has written its
\* packet again after the first one.
C32_Retried ==
  (xf.pc = "ret" /\ xf.err # "") =>
    /\ Cardinality(FailedCalls) >= 2
    /\ \E i \in FailedCalls :
         \E j \in DOMAIN xf.ios : j > i /\ xf.ios[j].k = "write"


(***************************************************************************)
(* IsOpen (C33)                                                            *)
(***************************************************************************)
\* C33: what IsOpen returns is whether the connection is open: the last
\* call that returned from IsOpen returned TRUE exactly if the Connection
\* then referred to a port or socket that was open.
C33_IsOpen ==
  (link.calls # <<>> /\ link.calls[Len(link.calls)].method = "IsOpen") =>
     link.calls[Len(link.calls)].result = Bool(link.handle = "live")


(***************************************************************************)
(* The checksum verifier (C34)                                             *)
(***************************************************************************)
\* pkg/protocol: lrc := byte(0); for _, b := range data { lrc ^= b }
calculateLRC(data) == XorAll(data)

\* pkg/protocol: the last byte of data is the checksum of the bytes before it
verifyLRC(data) ==
  IF Len(data) < 2 THEN FALSE
  ELSE data[Len(data)] = calculateLRC(SubSeq(data, 1, Len(data) - 1))

\* C34: every request packet that transfer has written is accepted by
\* verifyLRC: its last byte is the XOR of all the bytes before it.
C34_VerifyLRC == Written => verifyLRC(xf.packet)


(***************************************************************************)
(* The length field of a write (C35)                                       *)
(***************************************************************************)
\* C35: the 16-bit length field of the header of the request of a
\* write-sink call is the number of data bytes that follow the header.
C35_LengthField ==
  hd.loader # "none" => HeaderDataLength(hd.header) = hd.data


(***************************************************************************)
(* Termination of the chunk loops (C36)                                    *)
(***************************************************************************)
\* C36: for every file and every chunk_size the configuration accepts, the
\* chunk loop of an upload comes to an end, given that every write-block
\* returns.
C36_Terminates == <>(cmd.pc \notin {"body", "uploading"})


(***************************************************************************)
(* The RAM buffer of sector programming (C37)                              *)
(***************************************************************************)
\* C37: in a run of sector programming every write-block lies inside the
\* RAM buffer: it ends at or before RAMSize (in KB) * 1024.
C37_InsideRAM ==
  (cmd.name = "flashProgramSector" /\ op.name = "WriteBlock") =>
     op.address + Len(op.data) <= RAMSize(cfg) * 1024


(***************************************************************************)
(* The stop indicator and the target (C38)                                 *)
(***************************************************************************)
\* the enter-debug and exit-debug requests of the log that were answered
DebugAnswered ==
  {i \in Sent(CMDEnterDebug) \cup Sent(CMDExitDebug) : AnsweredAt(i)}

\* the last of them, if there is one, is a request of this command
LastDebugIs(command) ==
  /\ DebugAnswered # {}
  /\ \E i \in DebugAnswered :
        /\ \A j \in DebugAnswered : j <= i
        /\ PktCommand(wire[i].pkt) = command

\* C38: when a stop or a start command has returned, with or without an
\* error, the stop indicator is there if and only if the target was left in
\* debug mode: after an answered enter-debug with no exit-debug behind it
\* the indicator exists, after an answered exit-debug it does not.
C38_Indicator ==
  (cmd.name \in {"stopCPU", "startCPU"} /\ cmd.pc = "returned") =>
     /\ LastDebugIs(CMDEnterDebug) => stopFile
     /\ LastDebugIs(CMDExitDebug) => ~stopFile


(***************************************************************************)
(* Failed transfers and the result of the command (C39)                    *)
(***************************************************************************)
\* C39: a command that has returned after one of its transfers failed,
\* the exit-debug that ends the session included, has returned an error.
C39_FailureReported ==
  (cmd.pc = "returned" /\ \E i \in DOMAIN wire : FailedAt(i)) => cmd.err # ""


(***************************************************************************)
(* Validation of the list before the flash is touched (C40)                *)
(***************************************************************************)
\* C40: a bulk run that has rejected an entry of its list, for its sector
\* index or for its file, has sent no request that erases or programs the
\* flash.
C40_ValidatedFirst ==
  (/\ cmd.name = "flashBulkProgram"
   /\ cmd.err \in {"invalid sector number", "failed to read file"}) =>
     /\ Sent(CMDEraseFlash) = {}
     /\ Sent(CMDEraseSector) = {}
     /\ Sent(CMDProgramSector) = {}

=============================================================================
